---- MODULE Spec2Model ----
(***************************************************************************)
(* A model of the request pipeline of go-jlcpcb-parts: the token-bucket    *)
(* RateLimiter and the TTL MemoryCache.                                    *)
(*                                                                         *)
(* Numbers.  float64 tokens are fixed-point: One units make the token 1.0. *)
(* The clock counts ticks: Second ticks make time.Second.  The rates the   *)
(* model draws make every product and quotient below exact, so no rounding *)
(* is introduced by the representation.                                    *)
(***************************************************************************)
EXTENDS Integers, FiniteSets, Sequences, TLC

\* Number of goroutines that call Wait on the one limiter.
NumWaiters == 3

\* The cache's clock runs from 0 to MaxTime.
MaxTime == 3

\* Number of goroutines that call the one MemoryCache concurrently.
NumThreads == 2

\* calculateBackoff is called for the attempts 0..MaxAttempt.
MaxAttempt == 3

\* The goroutine that uses the client makes at most MaxCalls calls of
\* KeywordSearch or GetProductDetails, one after the other.
MaxCalls == 2

\* The token 1.0 of `rl.tokens >= 1.0` / `rl.tokens -= 1.0`, in token units.
One == 4

\* time.Second, in clock ticks.
Second == 2

Waiters == 1..NumWaiters

Threads == 1..NumThreads

\* The goroutine that uses the client; it calls rl.Wait as the waiter of its
\* own number.
Ops == {1}

\* The requests-per-second values handed to NewRateLimiter, in token units
\* per second: -1.0, 0, 0.5, 1.0 and 2.0.
RpsInputs == {-One, 0, One \div 2, One, 2 * One}

Min(a, b) == IF a < b THEN a ELSE b
Max(a, b) == IF a > b THEN a ELSE b

VARIABLES
    scope,        \* which component this behaviour exercises
    rate,         \* rl.rate
    maxTokens,    \* rl.maxTokens
    tokens,       \* rl.tokens
    sinceUpdate,  \* time.Now() - rl.lastUpdate, in ticks (saturating at Second)
    mu,           \* rl.mu: 0 when free, else the waiter that holds it
    pc,           \* where each Wait call stands
    timer,        \* ticks left until the call's time.After channel is ready
    done,         \* whether the call's ctx.Done() channel is closed
    taken,        \* token units this call has subtracted from rl.tokens
    timePassed,   \* whether the clock has advanced since construction
    items,        \* mc.items: a function from the stored keys to their cacheItem
    now,          \* time.Now() as the cache sees it
    lastWrite,    \* per key, the latest Set, Delete or Clear that addressed it
    ret,          \* what the Get call just made returned; NoRet after any other step
    rwWriter,     \* mc.mu: the goroutine that holds the write lock, or 0
    rwReaders,    \* mc.mu: the goroutines that hold the read lock
    cpc,          \* where each goroutine's cache call stands
    cop,          \* the cache call each goroutine is making
    rc,           \* the RetryConfig whose calculateBackoff is called
    attempt,      \* the argument of the latest calculateBackoff call, -1 before any
    backoff,      \* what that call returned
    prevBackoff,  \* what the call before it, for attempt - 1, returned
    lastCall,     \* the latest shouldRetry call: arguments and result
    prevCall,     \* the shouldRetry call before it
    classified,   \* the latest errorFromCode call: arguments and result
    dpc,          \* where each client operation stands
    calls,        \* the calls each goroutine has made so far
    kind,         \* which method the operation is: KeywordSearch or GetProductDetails
    attempts,     \* the attempts the operation has started
    status,       \* the status code of the operation's latest attempt, 0 before any
    sleeps,       \* the backoff durations the operation has slept or begun to sleep
    allRetryable, \* whether every attempt so far returned 429, 503 or 504
    stimer,       \* ticks left until the backoff sleep's time.After channel is ready
    seen,         \* what the operation's latest cache check returned
    result,       \* what the operation returned
    prevStatus,   \* the status code of the attempt before the latest, 0 if none
    precancelled, \* whether the operation's context was cancelled before the call
    wrote,        \* the cache keys the operation has stored an entry under
    arg,          \* the keyword or part code the method was called with
    sleepPc,      \* where the sleep call stands
    duration,     \* the duration the sleep call was given, in ticks
    after,        \* ticks left until the call's time.After channel is ready
    ctxDone,      \* whether the Done channel of the call's context is closed
    ctxDeadline,  \* ticks left until the context's deadline, -1 without one
    elapsed,      \* ticks since the sleep call was made
    early,        \* whether the context was done before the duration had elapsed
    clock,        \* ticks since NewRateLimiter returned
    granted,      \* the Wait calls that have returned nil since then
    callNo,       \* the Wait calls each caller has made
    polls,        \* the poll sleeps the caller's current Wait call has begun
    began,        \* the clock when the caller's current Wait call was made
    spc,          \* where each concurrent KeywordSearch call stands
    tries,        \* the attempts each of these calls has made
    nap,          \* ticks left until the call's backoff timer is ready
    got,          \* the response the call's successful attempt was answered with
    missed,       \* whether the call's cache check was a miss
    order,        \* the calls that have stored their response, in the order they did
    rcalls,       \* the calls made on the client whose requests are followed
    last          \* the latest of these calls: its arguments, what it did and returned

limiterVars == <<rate, maxTokens, tokens, sinceUpdate, mu, pc, timer, done,
                 taken, timePassed>>

cacheVars == <<items, now, lastWrite, ret>>

lockVars == <<rwWriter, rwReaders, cpc, cop>>

retryVars == <<rc, attempt, backoff, prevBackoff>>

errorVars == <<lastCall, prevCall, classified>>

callVars == <<prevStatus, precancelled, wrote, arg>>

dispatchVars == <<dpc, calls, kind, attempts, status, sleeps, allRetryable,
                  stimer, seen, result, callVars>>

sleepVars == <<sleepPc, duration, after, ctxDone, ctxDeadline, elapsed, early>>

callVarsOfWait == <<clock, granted, callNo, polls, began>>

searchVars == <<spc, tries, nap, got, missed, order>>

requestVars == <<rcalls, last>>

\* The variables of the components specified last.
restVars == <<sleepVars, callVarsOfWait, searchVars, requestVars>>

vars == <<scope, limiterVars, cacheVars, lockVars, retryVars, errorVars,
          dispatchVars, restVars>>

----------------------------------------------------------------------------
(* MemoryCache: data *)

Keys == {"k1", "k2"}

\* Byte strings, the empty one among them.
Values == {"", "a"}

\* Time-to-live arguments, in ticks: negative, zero and positive.
Ttls == {-1, 0, 1, 2}

\* The nil slice Get returns on a miss.
Nil == "<nil>"

NoWrite == [op |-> "none", at |-> 0, ttl |-> 0, val |-> Nil, over |-> "absent"]
NoRet == [key |-> Nil, value |-> Nil, found |-> FALSE]

\* Mutant: the boundary instant counts as after.
AfterOrEqual(t, u) == t >= u

\* time.Time.After: strictly later.
After(t, u) == t > u

\* time.Time.Add
Add(t, d) == t + d

\* &cacheItem{data: value, expiresAt: time.Now().Add(ttl)}
NewCacheItem(value, ttl) == [data |-> value, expiresAt |-> Add(now, ttl)]

\* Mutant: the expiry test is Before instead of After.
GetBefore(key) ==
    IF key \notin DOMAIN items
    THEN [value |-> Nil, found |-> FALSE]
    ELSE IF now < items[key].expiresAt
         THEN [value |-> Nil, found |-> FALSE]
         ELSE [value |-> items[key].data, found |-> TRUE]

\* Mutant: the expiry test is left out.
GetNoExpiry(key) ==
    IF key \notin DOMAIN items
    THEN [value |-> Nil, found |-> FALSE]
    ELSE [value |-> items[key].data, found |-> TRUE]

\* What Get(key) returns in the current state: (nil, false) for an absent key
\* and for an entry the clock is after, else (item.data, true).
Get(key) ==
    IF key \notin DOMAIN items
    THEN [value |-> Nil, found |-> FALSE]
    ELSE IF After(now, items[key].expiresAt)
         THEN [value |-> Nil, found |-> FALSE]
         ELSE [value |-> items[key].data, found |-> TRUE]

\* Mutant: the entries of the other keys are dropped.
StoreAlone(m, key, item) == [k \in {key} |-> item]

\* Mutant: an existing entry is kept.
StoreIfAbsent(m, key, item) ==
    [k \in DOMAIN m \cup {key} |-> IF k \in DOMAIN m THEN m[k] ELSE item]

\* mc.items[key] = item
Store(m, key, item) ==
    [k \in DOMAIN m \cup {key} |-> IF k = key THEN item ELSE m[k]]

\* Mutant: the whole map is dropped.
RemoveAll(m, key) == [k \in {} |-> m[k]]

\* delete(mc.items, key)
Remove(m, key) == [k \in DOMAIN m \ {key} |-> m[k]]

\* make(map[string]*cacheItem)
EmptyItems == [k \in {} |-> NoWrite]

\* Mutant: Clear leaves the map as it is.
ClearedNothing(m) == m

\* mc.items = make(map[string]*cacheItem): the map m is dropped for a new one.
Cleared(m) == EmptyItems

\* Whether the entry a write is about to replace or remove was absent, live
\* or expired when the write took place.
Prior(key) ==
    IF key \notin DOMAIN items THEN "absent"
    ELSE IF Get(key).found THEN "live" ELSE "expired"

CacheIdle ==
    /\ items = EmptyItems
    /\ now = 0
    /\ lastWrite = [k \in Keys |-> NoWrite]
    /\ ret = NoRet

----------------------------------------------------------------------------
(* RateLimiter *)

\* NewRateLimiter: a non-positive rps becomes 1.0; the bucket starts full.
NewRateLimiter(rps) ==
    LET r == IF rps <= 0 THEN One ELSE rps
    IN  [rate |-> r, maxTokens |-> r, tokens |-> r, sinceUpdate |-> 0]

\* Mutant: the elapsed ticks are taken for seconds.
RefillAddTicks(t, elapsedTicks, r) == t + elapsedTicks * r

\* rl.tokens += elapsed * rl.rate, with elapsed = ticks / Second seconds.
RefillAdd(t, elapsedTicks, r) == t + (elapsedTicks * r) \div Second

\* Mutant: the cap is left out.
RefillCapMissing(t, m) == t

\* if rl.tokens > rl.maxTokens { rl.tokens = rl.maxTokens }
RefillCap(t, m) == IF t > m THEN m ELSE t

\* rl.tokens >= 1.0
HasToken(t) == t >= One

\* Mutant: the decrement is left out.
ConsumeNothing(t) == t

\* Mutant: the bucket is emptied instead of decremented.
ConsumeAll(t) == 0

\* rl.tokens -= 1.0
Consume(t) == t - One

\* Mutant: the mutex is still held when the select is entered.
TakeKeepsLock(w) ==
    /\ pc[w] = "take"
    /\ IF HasToken(tokens)
       THEN /\ tokens' = tokens - One
            /\ taken' = [taken EXCEPT ![w] = @ + One]
            /\ pc' = [pc EXCEPT ![w] = "ok"]
            /\ mu' = 0
            /\ UNCHANGED timer
       ELSE /\ timer' = [timer EXCEPT ![w] = (Second * One) \div rate]
            /\ pc' = [pc EXCEPT ![w] = "select"]
            /\ UNCHANGED <<tokens, taken, mu>>
    /\ UNCHANGED <<cacheVars, scope, rate, maxTokens, sinceUpdate, done, timePassed>>

\* Mutant: the poll sleep is half the time one token takes.
WaitTimeHalf(r) == (Second * One) \div (2 * r)

\* time.Duration(float64(time.Second) / rl.rate), in ticks.
WaitTime(r) == (Second * One) \div r

\* rl.mu.Lock() at the top of the loop.
Lock(w) ==
    /\ pc[w] = "lock"
    /\ mu = 0
    /\ mu' = w
    /\ pc' = [pc EXCEPT ![w] = "refill"]
    /\ UNCHANGED <<cacheVars, scope, rate, maxTokens, tokens, sinceUpdate, timer, done,
                   taken, timePassed>>

\* refill, first half: now := time.Now(); elapsed; rl.tokens += elapsed * rl.rate.
\* rl.lastUpdate becomes this `now`, so the time since it restarts here.
Refill(w) ==
    /\ pc[w] = "refill"
    /\ tokens' = RefillAdd(tokens, sinceUpdate, rate)
    /\ sinceUpdate' = 0
    /\ pc' = [pc EXCEPT ![w] = "cap"]
    /\ UNCHANGED <<cacheVars, scope, rate, maxTokens, mu, timer, done, taken, timePassed>>

\* refill, second half: the cap at rl.maxTokens (and rl.lastUpdate = now).
Cap(w) ==
    /\ pc[w] = "cap"
    /\ tokens' = RefillCap(tokens, maxTokens)
    /\ pc' = [pc EXCEPT ![w] = "take"]
    /\ UNCHANGED <<cacheVars, scope, rate, maxTokens, sinceUpdate, mu, timer, done, taken,
                   timePassed>>

\* if rl.tokens >= 1.0 { rl.tokens -= 1.0; Unlock; return nil }; else Unlock,
\* compute waitTime and enter the select with a fresh time.After(waitTime).
Take(w) ==
    /\ pc[w] = "take"
    /\ mu' = 0
    /\ IF HasToken(tokens)
       THEN /\ tokens' = Consume(tokens)
            /\ taken' = [taken EXCEPT ![w] = @ + (tokens - tokens')]
            /\ pc' = [pc EXCEPT ![w] = "ok"]
            /\ UNCHANGED timer
       ELSE /\ timer' = [timer EXCEPT ![w] = WaitTime(rate)]
            /\ pc' = [pc EXCEPT ![w] = "select"]
            /\ UNCHANGED <<tokens, taken>>
    /\ UNCHANGED <<cacheVars, scope, rate, maxTokens, sinceUpdate, done, timePassed>>

\* case <-time.After(waitTime): continue
SelectTimer(w) ==
    /\ pc[w] = "select"
    /\ timer[w] = 0
    /\ pc' = [pc EXCEPT ![w] = "lock"]
    /\ UNCHANGED <<cacheVars, scope, rate, maxTokens, tokens, sinceUpdate, mu, timer, done,
                   taken, timePassed>>

\* case <-ctx.Done(): return ctx.Err()
SelectDone(w) ==
    /\ pc[w] = "select"
    /\ done[w]
    /\ pc' = [pc EXCEPT ![w] = "cancelled"]
    /\ UNCHANGED <<cacheVars, scope, rate, maxTokens, tokens, sinceUpdate, mu, timer, done,
                   taken, timePassed>>

\* The caller's context is cancelled (or its deadline passes) while the call
\* is in progress.
Cancel(w) ==
    /\ pc[w] \notin {"ok", "cancelled"}
    /\ ~done[w]
    /\ done' = [done EXCEPT ![w] = TRUE]
    /\ UNCHANGED <<cacheVars, scope, rate, maxTokens, tokens, sinceUpdate, mu, pc, timer,
                   taken, timePassed>>

\* The clock advances one tick.  A second or more since rl.lastUpdate refills
\* the bucket to maxTokens whatever the excess, so the count saturates there.
LimiterTick ==
    /\ sinceUpdate' = Min(sinceUpdate + 1, Second)
    /\ timer' = [w \in Waiters |-> Max(timer[w] - 1, 0)]
    /\ timePassed' = TRUE
    /\ UNCHANGED <<cacheVars, scope, rate, maxTokens, tokens, mu, pc, done, taken>>

WaitStep(w) ==
    \/ Lock(w)
    \/ Refill(w)
    \/ Cap(w)
    \/ Take(w)
    \/ SelectTimer(w)
    \/ SelectDone(w)

Returned(w) == pc[w] \in {"ok", "cancelled"}
Succeeded == {w \in Waiters : pc[w] = "ok"}

----------------------------------------------------------------------------
(* Claims about the RateLimiter *)

\* C1: whenever the limiter's mutex is not held, 0 <= tokens <= maxTokens,
\* under every interleaving of Wait calls and every passage of time.
C1_TokensWithinCapacity ==
    mu = 0 => (0 <= tokens /\ tokens <= maxTokens)

\* Time has passed, one call has consumed a token, another is sleeping, and
\* the bucket has been partly refilled since, with the mutex free.
C1_Witness ==
    /\ mu = 0
    /\ timePassed
    /\ \E w \in Waiters : pc[w] = "ok"
    /\ \E w \in Waiters : pc[w] = "select"
    /\ 0 < tokens /\ tokens < maxTokens

\* C2: from a full bucket of capacity N and with no time elapsed, at most N
\* Wait calls have returned success, and every call that is in the wait
\* branch found fewer than one token, which is still all the bucket holds.
C2_AtMostCapacityImmediate ==
    ~timePassed =>
        /\ Cardinality(Succeeded) * One <= maxTokens
        /\ \A w \in Waiters : pc[w] = "select" => (~HasToken(tokens) /\ timer[w] > 0)

\* Capacity 2.0: two calls succeeded at once and the third is sleeping.
C2_Witness ==
    /\ ~timePassed
    /\ maxTokens = 2 * One
    /\ Cardinality(Succeeded) = 2
    /\ \E w \in Waiters : pc[w] = "select"

\* C3 (as claimed): a call whose cancellation token had fired before the call
\* obtained its token does not return success.  Cancel acts only on calls in
\* progress, so done[w] at "ok" means the token fired before the token was
\* taken.
C3_CancelledNeverSucceeds ==
    \A w \in Waiters : pc[w] = "ok" => ~done[w]

\* C4: a call that returned success subtracted exactly one token, and a call
\* that returned the cancellation signal subtracted none.
C4_ConsumesOneOrNone ==
    \A w \in Waiters :
        /\ pc[w] = "ok" => taken[w] = One
        /\ pc[w] = "cancelled" => taken[w] = 0
        /\ ~Returned(w) => taken[w] = 0

\* One call returned success and another the cancellation signal, after the
\* latter had slept beside the former.
C4_Witness ==
    \E w, v \in Waiters : pc[w] = "ok" /\ pc[v] = "cancelled" /\ tokens < maxTokens

\* C5 (as claimed): under fair scheduling and an advancing clock, every call
\* whose cancellation token never fires eventually returns success, whatever
\* requests-per-second value built the limiter.
C5_EventuallySucceeds ==
    \A w \in Waiters : <>(done[w] \/ pc[w] = "ok")

\* The same, for limiters whose capacity is at least one token.
C5_EventuallySucceedsWholeToken ==
    \A w \in Waiters : <>(done[w] \/ pc[w] = "ok" \/ ~HasToken(maxTokens))

----------------------------------------------------------------------------
(* MemoryCache: operations *)

\* Mutant: a Get that finds the entry expired deletes it.
GetCallEvicts(key) ==
    /\ ret' = [key |-> key, value |-> Get(key).value, found |-> Get(key).found]
    /\ items' = IF key \in DOMAIN items /\ ~Get(key).found
                THEN [k \in DOMAIN items \ {key} |-> items[k]]
                ELSE items
    /\ UNCHANGED <<now, lastWrite, scope, limiterVars>>

\* A Get call: the store is read under the read lock and left as it is.
GetCall(key) ==
    /\ ret' = [key |-> key, value |-> Get(key).value, found |-> Get(key).found]
    /\ UNCHANGED <<items, now, lastWrite, scope, limiterVars>>

Set(key, value, ttl) ==
    /\ items' = Store(items, key, NewCacheItem(value, ttl))
    /\ lastWrite' = [lastWrite EXCEPT ![key] =
                        [op |-> "set", at |-> now, ttl |-> ttl, val |-> value,
                         over |-> Prior(key)]]
    /\ ret' = NoRet
    /\ UNCHANGED <<now, scope, limiterVars>>

Delete(key) ==
    /\ items' = Remove(items, key)
    /\ lastWrite' = [lastWrite EXCEPT ![key] =
                        [NoWrite EXCEPT !.op = "delete", !.at = now,
                                        !.over = Prior(key)]]
    /\ ret' = NoRet
    /\ UNCHANGED <<now, scope, limiterVars>>

Clear ==
    /\ items' = Cleared(items)
    /\ lastWrite' = [k \in Keys |->
                        [NoWrite EXCEPT !.op = "clear", !.at = now,
                                        !.over = Prior(k)]]
    /\ ret' = NoRet
    /\ UNCHANGED <<now, scope, limiterVars>>

\* The clock advances one tick.
CacheTick ==
    /\ now < MaxTime
    /\ now' = now + 1
    /\ ret' = NoRet
    /\ UNCHANGED <<items, lastWrite, scope, limiterVars>>

IsSet(k) == lastWrite[k].op = "set"

----------------------------------------------------------------------------
(* Claims about the MemoryCache *)

\* C6: after Set(k, v, ttl) with ttl > 0, with no time elapsed and no later
\* write to k, Get(k) returns (v, true): both a Get made in this state and the
\* Get call that has just returned.
C6_SetThenGet ==
    \A k \in Keys :
        (IsSet(k) /\ lastWrite[k].at = now /\ lastWrite[k].ttl > 0) =>
            /\ Get(k) = [value |-> lastWrite[k].val, found |-> TRUE]
            /\ ret.key = k => (ret.found /\ ret.value = lastWrite[k].val)

\* The empty byte string was Set with a positive ttl over a live entry and a
\* Get at the same instant has just returned it.
C6_Witness ==
    \E k \in Keys :
        /\ IsSet(k) /\ lastWrite[k].at = now /\ lastWrite[k].ttl > 0
        /\ lastWrite[k].val = "" /\ lastWrite[k].over = "live"
        /\ ret = [key |-> k, value |-> "", found |-> TRUE]

\* C7: for every ttl, once the clock is more than ttl past the latest Set of
\* k, every Get(k) returns found = false.
C7_ExpiredIsMiss ==
    \A k \in Keys :
        (IsSet(k) /\ now - lastWrite[k].at > lastWrite[k].ttl) =>
            /\ ~Get(k).found
            /\ ret.key = k => ~ret.found

\* A Set with a positive ttl, the clock more than ttl past it, and a Get that
\* has just missed; the other key was Set with a negative ttl.
C7_Witness ==
    \E k, j \in Keys :
        /\ IsSet(k) /\ lastWrite[k].ttl > 0
        /\ now - lastWrite[k].at > lastWrite[k].ttl
        /\ ret = [key |-> k, value |-> Nil, found |-> FALSE]
        /\ IsSet(j) /\ lastWrite[j].ttl < 0

\* C8 (as claimed): Get misses whenever the clock is at or after the entry's
\* expiresAt, so a Get made or just returned at now = expiresAt misses.
C8_MissAtOrAfterExpiry ==
    \A k \in DOMAIN items :
        now >= items[k].expiresAt =>
            /\ ~Get(k).found
            /\ ret.key = k => ~ret.found

\* C8 (amended): Get misses exactly when the clock is strictly after the
\* expiry the latest Set gave the entry; at now = expiresAt it returns the
\* stored value with found = true.
C8_MissStrictlyAfterExpiry ==
    \A k \in Keys :
        IsSet(k) =>
            LET expiry == lastWrite[k].at + lastWrite[k].ttl
                hit == [value |-> lastWrite[k].val, found |-> TRUE]
                miss == [value |-> Nil, found |-> FALSE]
            IN  /\ now > expiry => Get(k) = miss
                /\ now <= expiry => Get(k) = hit
                /\ (ret.key = k /\ now = expiry) => ret.found

\* A Get made at the very instant of expiry, a positive ttl after the Set,
\* has just returned the value.
C8_Witness ==
    \E k \in Keys :
        /\ IsSet(k) /\ lastWrite[k].ttl > 0
        /\ now = lastWrite[k].at + lastWrite[k].ttl
        /\ ret = [key |-> k, value |-> lastWrite[k].val, found |-> TRUE]

\* C9: after Set(k, v2, ttl2) the store holds for k the one entry of value v2
\* and expiry (time of that Set) + ttl2, whatever entry k had before.
C9_SetReplaces ==
    /\ DOMAIN items \subseteq Keys
    /\ \A k \in Keys :
        IsSet(k) =>
            /\ k \in DOMAIN items
            /\ items[k] = [data |-> lastWrite[k].val,
                           expiresAt |-> lastWrite[k].at + lastWrite[k].ttl]

\* One key's latest Set replaced a live entry with one that expires at once,
\* the other key's replaced an expired entry with a live one.
C9_Witness ==
    \E k, j \in Keys :
        /\ IsSet(k) /\ lastWrite[k].over = "live" /\ lastWrite[k].ttl < 0
        /\ IsSet(j) /\ lastWrite[j].over = "expired" /\ lastWrite[j].ttl > 0
        /\ lastWrite[j].at > 0

\* C10: after Delete(k) and until the next Set(k), every Get(k) returns
\* found = false; and a Delete of a key that is not stored leaves the store
\* as it was.
C10_DeleteThenMiss ==
    /\ [](\A k \in Keys :
            lastWrite[k].op = "delete" =>
                /\ ~Get(k).found
                /\ ret.key = k => ~ret.found)
    /\ [][\A k \in Keys :
            (k \notin DOMAIN items /\ Delete(k)) => items' = items]_vars

\* A live entry was deleted, time went on, and a Get of the key has just
\* missed, while the other key is still stored.
C10_Witness ==
    \E k, j \in Keys :
        /\ lastWrite[k].op = "delete" /\ lastWrite[k].over = "live"
        /\ now > lastWrite[k].at
        /\ ret = [key |-> k, value |-> Nil, found |-> FALSE]
        /\ j \in DOMAIN items

\* C11: after Clear() and until a key is Set again, Get of that key returns
\* found = false; and a key that was Set after the Clear is retrievable as
\* long as its entry has not expired.
C11_ClearThenMiss ==
    \A k \in Keys :
        /\ lastWrite[k].op = "clear" =>
              /\ ~Get(k).found
              /\ ret.key = k => ~ret.found
        /\ \A j \in Keys :
              (lastWrite[j].op = "clear" /\ IsSet(k)
                 /\ now <= lastWrite[k].at + lastWrite[k].ttl) =>
                    Get(k) = [value |-> lastWrite[k].val, found |-> TRUE]

\* Clear dropped a live entry, a Get of its key has just missed, and the other
\* key, Set after the Clear, is live.
C11_Witness ==
    \E k, j \in Keys :
        /\ lastWrite[k].op = "clear" /\ lastWrite[k].over = "live"
        /\ ret = [key |-> k, value |-> Nil, found |-> FALSE]
        /\ IsSet(j) /\ Get(j).found

\* C32: a step in which a Get call returns leaves the store as it was; an
\* entry a Get has just reported as a miss because it has expired is still
\* stored as its Set left it; and an entry leaves the store or changes only
\* in a Set or Delete of its key or in a Clear.
C32_GetLeavesStore ==
    /\ [][ret'.key # Nil => items' = items]_vars
    /\ [](\A k \in Keys :
            (ret = [key |-> k, value |-> Nil, found |-> FALSE] /\ IsSet(k)) =>
                /\ k \in DOMAIN items
                /\ items[k] = [data |-> lastWrite[k].val,
                               expiresAt |-> lastWrite[k].at + lastWrite[k].ttl])
    /\ [][\A k \in DOMAIN items :
            (k \notin DOMAIN items' \/ items'[k] # items[k]) =>
                /\ lastWrite'[k] # lastWrite[k]
                /\ lastWrite'[k].op \in {"set", "delete", "clear"}
                /\ lastWrite'[k].at = now]_vars

\* An entry Set with a positive ttl has expired, a Get of its key has just
\* missed, and the entry is still in the store.
C32_Witness ==
    \E k \in Keys :
        /\ IsSet(k) /\ lastWrite[k].ttl > 0
        /\ now > lastWrite[k].at + lastWrite[k].ttl
        /\ ret = [key |-> k, value |-> Nil, found |-> FALSE]
        /\ k \in DOMAIN items /\ items[k].data = lastWrite[k].val

\* C33: a Set or Delete of one key leaves every other key as it was, stored
\* or not, with its value and expiry; so while the keys' latest Sets have
\* not expired, Get of each key returns the value that key was Set to.
C33_KeysIndependent ==
    /\ [][\A k \in Keys :
            (lastWrite'[k] # lastWrite[k]
               /\ lastWrite'[k].op \in {"set", "delete"}) =>
                \A j \in Keys \ {k} :
                    /\ j \in DOMAIN items' <=> j \in DOMAIN items
                    /\ j \in DOMAIN items => items'[j] = items[j]]_vars
    /\ []((\A k \in Keys :
              IsSet(k) /\ now <= lastWrite[k].at + lastWrite[k].ttl) =>
           \A k \in Keys :
              /\ Get(k) = [value |-> lastWrite[k].val, found |-> TRUE]
              /\ ret.key = k => ret.value = lastWrite[k].val)

\* The keys were Set one after the other to different values, and a Get of
\* the key Set first has just returned that key's value.
C33_Witness ==
    \E k, j \in Keys :
        /\ IsSet(k) /\ IsSet(j)
        /\ lastWrite[j].at < lastWrite[k].at
        /\ lastWrite[j].val # lastWrite[k].val
        /\ now <= lastWrite[j].at + lastWrite[j].ttl
        /\ now <= lastWrite[k].at + lastWrite[k].ttl
        /\ ret = [key |-> j, value |-> lastWrite[j].val, found |-> TRUE]

----------------------------------------------------------------------------
(* MemoryCache: the calls of concurrent goroutines under mc.mu *)

NoCall == [op |-> "none", key |-> Nil]

\* The calls the goroutines make: each operation on each key, Clear once.
CacheCalls ==
    {[op |-> o, key |-> k] : o \in {"Get", "Set", "Delete"}, k \in Keys}
        \cup {[op |-> "Clear", key |-> Nil]}

\* Mutant: every operation takes the read lock.
LockModeAllRead(op) == "R"

\* Get takes mc.mu.RLock(); Set, Delete and Clear take mc.mu.Lock().
LockMode(op) == IF op = "Get" THEN "R" ELSE "W"

\* sync.RWMutex: Lock waits until no goroutine holds the lock in either mode,
\* RLock until no goroutine holds the write lock.
CanAcquire(mode) ==
    IF mode = "W" THEN rwWriter = 0 /\ rwReaders = {} ELSE rwWriter = 0

LockIdle ==
    /\ rwWriter = 0
    /\ rwReaders = {}
    /\ cpc = [t \in Threads |-> "idle"]
    /\ cop = [t \in Threads |-> NoCall]

\* The call is made and its first statement, mc.mu.RLock() or mc.mu.Lock(),
\* returns: the goroutine is in its critical section.
Enter(t, call) ==
    /\ cpc[t] = "idle"
    /\ CanAcquire(LockMode(call.op))
    /\ IF LockMode(call.op) = "W"
       THEN rwWriter' = t /\ UNCHANGED rwReaders
       ELSE rwReaders' = rwReaders \cup {t} /\ UNCHANGED rwWriter
    /\ cpc' = [cpc EXCEPT ![t] = "cs"]
    /\ cop' = [cop EXCEPT ![t] = call]
    /\ UNCHANGED <<scope, limiterVars, cacheVars>>

\* The body of the call, then the deferred RUnlock() or Unlock().
Leave(t) ==
    /\ cpc[t] = "cs"
    /\ CASE cop[t].op = "Get" -> GetCall(cop[t].key)
         [] cop[t].op = "Set" -> Set(cop[t].key, "a", 1)
         [] cop[t].op = "Delete" -> Delete(cop[t].key)
         [] cop[t].op = "Clear" -> Clear
    /\ rwWriter' = IF rwWriter = t THEN 0 ELSE rwWriter
    /\ rwReaders' = rwReaders \ {t}
    /\ cpc' = [cpc EXCEPT ![t] = "idle"]
    /\ cop' = [cop EXCEPT ![t] = NoCall]

InCriticalSection(t) == cpc[t] = "cs"
IsWriter(t) == cop[t].op \in {"Set", "Delete", "Clear"}

----------------------------------------------------------------------------
(* Claims about the MemoryCache's locking *)

\* C12: no writer (Set, Delete or Clear) is inside its critical section
\* together with another writer or with a reader (Get).
C12_WriterExcludesAll ==
    \A t, u \in Threads :
        (t # u /\ InCriticalSection(t) /\ IsWriter(t)) => ~InCriticalSection(u)

\* Two Gets are inside their critical sections at the same time.
C12_Witness ==
    \E t, u \in Threads :
        /\ t # u
        /\ InCriticalSection(t) /\ cop[t].op = "Get"
        /\ InCriticalSection(u) /\ cop[u].op = "Get"

----------------------------------------------------------------------------
(* RetryConfig.calculateBackoff *)

\* BackoffMultiplier is a float64. The model holds it as a fraction with the
\* denominator MultiplierDen: halves, which float64 represents exactly.
MultiplierDen == 2

\* The configurations a caller can build: RetryConfig is a plain struct and
\* nothing validates its fields.  Durations are whole nanoseconds.
RetryConfigs ==
    [MaxRetries : {3},
     InitialBackoff : 0..3,
     MaxBackoff : 0..6,
     BackoffMultiplier : 0..4]

\* DefaultRetryConfig, in units of 100ms: 3 retries, 100ms, 10s, 2.0.
DefaultRetryConfig ==
    [MaxRetries |-> 3, InitialBackoff |-> 1, MaxBackoff |-> 100,
     BackoffMultiplier |-> 2 * MultiplierDen]

\* math.Pow for a whole exponent n >= 0; math.Pow(x, 0) is 1 for every x.
RECURSIVE Pow(_, _)
Pow(x, n) == IF n = 0 THEN 1 ELSE x * Pow(x, n - 1)

\* time.Duration(f) of the float64 f = num / den, den > 0: the fraction is
\* dropped, the result is the whole number next to f towards zero.
Duration(num, den) ==
    IF num >= 0 THEN num \div den ELSE -((-num) \div den)

\* Mutant: the result is not capped at MaxBackoff.
calculateBackoffUncapped(c, n) ==
    Duration(c.InitialBackoff * Pow(c.BackoffMultiplier, n), Pow(MultiplierDen, n))

\* backoff := float64(InitialBackoff) * math.Pow(BackoffMultiplier, attempt),
\* held as the fraction num / den; capped at float64(MaxBackoff); converted.
calculateBackoff(c, n) ==
    LET num == c.InitialBackoff * Pow(c.BackoffMultiplier, n)
        den == Pow(MultiplierDen, n)
    IN  IF num > c.MaxBackoff * den
        THEN Duration(c.MaxBackoff * den, den)
        ELSE Duration(num, den)

RetryIdle ==
    /\ rc = DefaultRetryConfig
    /\ attempt = -1
    /\ backoff = 0
    /\ prevBackoff = 0

\* The retry loop calls calculateBackoff for attempt 0, 1, 2, ... in turn.
CallBackoff ==
    /\ attempt < MaxAttempt
    /\ attempt' = attempt + 1
    /\ backoff' = calculateBackoff(rc, attempt + 1)
    /\ prevBackoff' = backoff
    /\ UNCHANGED <<rc, scope, limiterVars, cacheVars, lockVars>>

\* The policies of the specification: initialDelay > 0, maxDelay >= initialDelay,
\* multiplier >= 1.
ValidPolicy(c) ==
    /\ c.InitialBackoff > 0
    /\ c.MaxBackoff >= c.InitialBackoff
    /\ c.BackoffMultiplier >= MultiplierDen

\* min(initialDelay * multiplier^n, maxDelay), as a numerator over the
\* denominator MultiplierDen^n.
MinScaled(c, n) ==
    Min(c.InitialBackoff * Pow(c.BackoffMultiplier, n),
        c.MaxBackoff * Pow(MultiplierDen, n))

----------------------------------------------------------------------------
(* Claims about calculateBackoff *)

C14_NonDecreasing ==
    attempt >= 1 => prevBackoff <= backoff

----------------------------------------------------------------------------
(* errorFromCode and shouldRetry *)

StatusCodes == {200, 400, 404, 429, 500, 502, 503, 504}

Messages == {"", "C25804"}

\* The nil error.
nil == [kind |-> "nil"]

ErrProductNotFound(productCode) ==
    [kind |-> "ErrProductNotFound", ProductCode |-> productCode]

ErrRateLimited == [kind |-> "ErrRateLimited"]

ErrInvalidInput(message) == [kind |-> "ErrInvalidInput", Message |-> message]

\* fmt.Errorf("API error (code %d): %s", code, message): an error whose text
\* is the format's pieces with the code and the message put in.
Errorf(code, message) ==
    [kind |-> "errorString",
     text |-> <<"API error (code ", code, "): ", message>>]

\* Mutant: 400 is not a case of its own.
errorFromCodeNo400(code, message) ==
    CASE code = 200 -> nil
      [] code = 404 -> ErrProductNotFound(message)
      [] code = 429 -> ErrRateLimited
      [] OTHER -> Errorf(code, message)

\* Mutant: 429 is not a case of its own.
errorFromCodeNo429(code, message) ==
    CASE code = 200 -> nil
      [] code = 404 -> ErrProductNotFound(message)
      [] code = 400 -> ErrInvalidInput(message)
      [] OTHER -> Errorf(code, message)

errorFromCode(code, message) ==
    CASE code = 200 -> nil
      [] code = 404 -> ErrProductNotFound(message)
      [] code = 429 -> ErrRateLimited
      [] code = 400 -> ErrInvalidInput(message)
      [] OTHER -> Errorf(code, message)

\* The error values handed to shouldRetry: nil and one error of each kind
\* that errorFromCode builds.
Errors == {errorFromCode(c, "C25804") : c \in {200, 400, 404, 429, 500}}

\* Mutant: nothing is retried.
shouldRetryNever(err, statusCode) == FALSE

\* Mutant: the decision follows the kind of the error, not the status.
shouldRetryByKind(err, statusCode) == err.kind = "ErrRateLimited"

\* Mutant: every 5xx status is retried.
shouldRetryAll5xx(err, statusCode) ==
    IF err = nil THEN FALSE ELSE statusCode = 429 \/ statusCode >= 500

shouldRetry(err, statusCode) ==
    IF err = nil
    THEN FALSE
    ELSE CASE statusCode = 429 -> TRUE
           [] statusCode = 503 -> TRUE
           [] statusCode = 504 -> TRUE
           [] OTHER -> FALSE

NoShouldRetry == [made |-> FALSE, err |-> nil, statusCode |-> 0, result |-> FALSE]

NoErrorFromCode == [made |-> FALSE, code |-> 0, message |-> "", err |-> nil]

ErrorsIdle ==
    /\ lastCall = NoShouldRetry
    /\ prevCall = NoShouldRetry
    /\ classified = NoErrorFromCode

CallShouldRetry(err, statusCode) ==
    /\ lastCall' = [made |-> TRUE, err |-> err, statusCode |-> statusCode,
                    result |-> shouldRetry(err, statusCode)]
    /\ prevCall' = lastCall
    /\ UNCHANGED <<classified, scope, limiterVars, cacheVars, lockVars, retryVars>>

CallErrorFromCode(code, message) ==
    /\ classified' = [made |-> TRUE, code |-> code, message |-> message,
                      err |-> errorFromCode(code, message)]
    /\ UNCHANGED <<lastCall, prevCall, scope, limiterVars, cacheVars, lockVars,
                   retryVars>>

\* shouldRetry(errorFromCode(code, message), code): the status of an answer
\* is classified and the retry decision is taken for the error it gave.
CallBoth(code, message) ==
    /\ classified' = [made |-> TRUE, code |-> code, message |-> message,
                      err |-> errorFromCode(code, message)]
    /\ lastCall' = [made |-> TRUE, err |-> errorFromCode(code, message),
                    statusCode |-> code,
                    result |-> shouldRetry(errorFromCode(code, message), code)]
    /\ prevCall' = lastCall
    /\ UNCHANGED <<scope, limiterVars, cacheVars, lockVars, retryVars>>

----------------------------------------------------------------------------
(* Claims about shouldRetry and errorFromCode *)

\* C15: for a failed attempt (a non-nil error) the retry decision is true
\* exactly for the status codes 429, 503 and 504, and false for every other
\* code, 200, 404, 500 and the other 5xx codes included.
C15_RetryExactlyAllowList ==
    (lastCall.made /\ lastCall.err # nil) =>
        /\ lastCall.result <=> lastCall.statusCode \in {429, 503, 504}
        /\ lastCall.statusCode \in {200, 404, 500, 502} => ~lastCall.result

\* A failed attempt with a 5xx status outside the list was decided: no retry.
C15_Witness ==
    /\ lastCall.made /\ lastCall.err # nil
    /\ lastCall.statusCode = 500 /\ ~lastCall.result
    /\ prevCall.made /\ prevCall.err # nil
    /\ prevCall.statusCode = 504 /\ prevCall.result

\* C16: two calls of the retry decision with the same status code return the
\* same result, whatever error value, or none, accompanies the status.
C16_PureInStatus ==
    (lastCall.made /\ prevCall.made
        /\ lastCall.statusCode = prevCall.statusCode) =>
            lastCall.result = prevCall.result

\* C17: classification yields no error iff the code is 200, NotFound carrying
\* the message iff 404, RateLimited iff 429, InvalidInput carrying the message
\* iff 400, and for every other code an error carrying the code and the message.
C17_Classification ==
    classified.made =>
        LET c == classified.code
            m == classified.message
            e == classified.err
        IN  /\ e = nil <=> c = 200
            /\ e = ErrProductNotFound(m) <=> c = 404
            /\ e.kind = "ErrProductNotFound" <=> c = 404
            /\ e = ErrRateLimited <=> c = 429
            /\ e = ErrInvalidInput(m) <=> c = 400
            /\ e.kind = "ErrInvalidInput" <=> c = 400
            /\ c \notin {200, 404, 429, 400} =>
                  /\ e.kind = "errorString"
                  /\ e.text[2] = c
                  /\ e.text[4] = m

\* A 400 was classified as InvalidInput with its message.
C17_Witness ==
    /\ classified.made
    /\ classified.code = 400
    /\ classified.message = "C25804"
    /\ classified.err = ErrInvalidInput("C25804")

\* C34: the retry decision taken for the error a status code was classified
\* as, together with that code, is true exactly for 429, 503 and 504,
\* whatever the message: RateLimited on 429 and the generic error on 503 and
\* 504 are retried, NotFound on 404, InvalidInput on 400, the generic error on
\* 500 and other codes, and no error on 200 are not.
C34_ClassifyThenDecide ==
    (lastCall.made /\ classified.made
        /\ lastCall.statusCode = classified.code
        /\ lastCall.err = classified.err) =>
        LET c == classified.code
            e == classified.err
        IN  /\ lastCall.result <=> c \in {429, 503, 504}
            /\ c \in {503, 504} => (e.kind = "errorString" /\ lastCall.result)
            /\ c = 429 => (e = ErrRateLimited /\ lastCall.result)
            /\ c = 404 => (e.kind = "ErrProductNotFound" /\ ~lastCall.result)
            /\ c = 400 => (e.kind = "ErrInvalidInput" /\ ~lastCall.result)
            /\ c = 500 => (e.kind = "errorString" /\ ~lastCall.result)
            /\ c = 200 => (e = nil /\ ~lastCall.result)

\* A 503 was classified as the generic error and is retried; before it the
\* same was done for a 500, which is not.
C34_Witness ==
    /\ classified.made /\ classified.code = 503
    /\ classified.err.kind = "errorString"
    /\ lastCall = [made |-> TRUE, err |-> classified.err, statusCode |-> 503,
                   result |-> TRUE]
    /\ prevCall.made /\ prevCall.statusCode = 500
    /\ prevCall.err.kind = "errorString" /\ ~prevCall.result

----------------------------------------------------------------------------
(* The client: KeywordSearch and GetProductDetails through the dispatcher *)

\* time.Minute, in clock ticks.
Minute == 60 * Second

\* The ttl of every cache entry the client stores: 5 * time.Minute.
CacheTTL == 5 * Minute

\* The clock of a client behaviour runs tick by tick up to DispatchHorizon.
DispatchHorizon == MaxTime + 2

\* The operations are all made for one part code: KeywordSearch for it with
\* page 1 and page size 1, which is also the search GetProductDetails makes.
\* getCacheKeySearch and getCacheKeyProduct give them two different keys.
SearchKey == "k1"
ProductKey == "k2"

\* The body of a successful response, and the message of a failed one.
Payload == "a"
Message == "C25804"

\* The status codes the catalog service answers with.
AttemptStatuses == {200, 404, 429, 500, 503}

\* The retry configurations of the client, durations in ticks. The
\* multipliers 1.0 and 2.0 differ from the second sleep on, which only a
\* budget of three attempts has.
ClientRetryConfigs ==
    {c \in [MaxRetries : 1..3,
            InitialBackoff : {1},
            MaxBackoff : {3},
            BackoffMultiplier : {MultiplierDen, 2 * MultiplierDen}] :
        c.MaxRetries < 3 => c.BackoffMultiplier = 2 * MultiplierDen}

\* The error of json.Unmarshal for a body that is not a JSON document.
SyntaxError == [kind |-> "json.SyntaxError"]

\* Mutant: the select's ctx.Done() case returns nil.
CanceledAsNil == nil

\* ctx.Err() of a cancelled context.
Canceled == [kind |-> "context.Canceled"]

NoSeen == [key |-> Nil, value |-> Nil, found |-> FALSE]
NoResult == [made |-> FALSE, value |-> Nil, err |-> nil]
Success(value) == [made |-> TRUE, value |-> value, err |-> nil]
Failure(err) == [made |-> TRUE, value |-> Nil, err |-> err]

\* json.Unmarshal(cached, &resp) returns no error: the empty byte string is
\* not a JSON document.
Decodes(value) == value # "" /\ value # Nil

\* Mutant: the cached entry is never used.
CacheHitNever(g) == FALSE

\* Mutant: whatever is found is returned, decodable or not.
CacheHitFound(g) == g.found

\* if cached, ok := c.cache.Get(cacheKey); ok { if err := json.Unmarshal(...);
\* err == nil { return &resp, nil } }
CacheHit(g) == g.found /\ Decodes(g.value)

\* The characters strings.TrimSpace takes for white space, those of them
\* that the arguments use.
WhiteSpace == {" ", "\t", "\n"}

\* The keywords and part codes the methods are called with: the empty string,
\* a string of white space, and the part code with white space around it.
Arguments == {<<>>, <<" ", "\t", "\n">>, <<" ", "C25804", "\n">>}

\* Mutant: the argument is used as it is given.
TrimSpaceNothing(s) == s

\* strings.TrimSpace: s without its leading and trailing white space.
RECURSIVE TrimSpace(_)
TrimSpace(s) ==
    IF s = <<>> THEN s
    ELSE IF Head(s) \in WhiteSpace THEN TrimSpace(Tail(s))
    ELSE IF s[Len(s)] \in WhiteSpace THEN TrimSpace(SubSeq(s, 1, Len(s) - 1))
    ELSE s

\* fmt.Errorf("keyword is required") and fmt.Errorf("part code is required")
Required(k) ==
    [kind |-> "errorString",
     text |-> <<IF k = "GetProductDetails" THEN "part code is required"
                                           ELSE "keyword is required">>]

DispatchIdle ==
    /\ dpc = [o \in Ops |-> "idle"]
    /\ calls = [o \in Ops |-> 0]
    /\ kind = [o \in Ops |-> "none"]
    /\ attempts = [o \in Ops |-> 0]
    /\ status = [o \in Ops |-> 0]
    /\ sleeps = [o \in Ops |-> <<>>]
    /\ allRetryable = [o \in Ops |-> TRUE]
    /\ stimer = [o \in Ops |-> 0]
    /\ seen = [o \in Ops |-> NoSeen]
    /\ result = [o \in Ops |-> NoResult]
    /\ prevStatus = [o \in Ops |-> 0]
    /\ precancelled = [o \in Ops |-> FALSE]
    /\ wrote = [o \in Ops |-> {}]
    /\ arg = [o \in Ops |-> <<>>]

\* The method is called with the keyword or part code a, a string given as
\* the sequence of its characters, and with a context that is fresh or, with
\* c, cancelled already. A blank argument is answered at once:
\* keyword := strings.TrimSpace(req.Keyword); if keyword == "" { return nil,
\* fmt.Errorf("keyword is required") }, likewise for the part code.
Start(o, k, c, a) ==
    /\ dpc[o] \in {"idle", "done"}
    /\ calls[o] < MaxCalls
    /\ calls' = [calls EXCEPT ![o] = @ + 1]
    /\ arg' = [arg EXCEPT ![o] = a]
    /\ IF TrimSpace(a) = <<>>
       THEN /\ dpc' = [dpc EXCEPT ![o] = "done"]
            /\ result' = [result EXCEPT ![o] = Failure(Required(k))]
       ELSE /\ dpc' = [dpc EXCEPT ![o] =
                         IF k = "GetProductDetails" THEN "checkProduct"
                                                    ELSE "checkSearch"]
            /\ result' = [result EXCEPT ![o] = NoResult]
    /\ kind' = [kind EXCEPT ![o] = k]
    /\ attempts' = [attempts EXCEPT ![o] = 0]
    /\ status' = [status EXCEPT ![o] = 0]
    /\ sleeps' = [sleeps EXCEPT ![o] = <<>>]
    /\ allRetryable' = [allRetryable EXCEPT ![o] = TRUE]
    /\ stimer' = [stimer EXCEPT ![o] = 0]
    /\ seen' = [seen EXCEPT ![o] = NoSeen]
    /\ prevStatus' = [prevStatus EXCEPT ![o] = 0]
    /\ taken' = [taken EXCEPT ![o] = 0]
    /\ done' = [done EXCEPT ![o] = c]
    /\ precancelled' = [precancelled EXCEPT ![o] = c]
    /\ wrote' = [wrote EXCEPT ![o] = {}]
    /\ UNCHANGED <<cacheVars, scope, rate, maxTokens, tokens, sinceUpdate, mu,
                   pc, timer, timePassed>>

\* The cache check at the top of GetProductDetails (product key) and of
\* KeywordSearch (search key): a decodable hit is returned, anything else
\* falls through.
CheckCache(o) ==
    /\ dpc[o] \in {"checkProduct", "checkSearch"}
    /\ LET key == IF dpc[o] = "checkProduct" THEN ProductKey ELSE SearchKey
           g == Get(key)
       IN  /\ GetCall(key)
           /\ seen' = [seen EXCEPT ![o] =
                          [key |-> key, value |-> g.value, found |-> g.found]]
           /\ IF CacheHit(g)
              THEN /\ result' = [result EXCEPT ![o] = Success(g.value)]
                   /\ dpc' = [dpc EXCEPT ![o] =
                                 IF dpc[o] = "checkSearch"
                                      /\ kind[o] = "GetProductDetails"
                                 THEN "storeProduct" ELSE "done"]
              ELSE /\ UNCHANGED result
                   /\ dpc' = [dpc EXCEPT ![o] =
                                 IF dpc[o] = "checkProduct"
                                 THEN "checkSearch" ELSE "token"]
    /\ UNCHANGED <<calls, kind, attempts, status, sleeps, allRetryable, stimer,
                   callVars>>

\* ACQUIRE_TOKEN is entered: the dispatcher calls rl.Wait(ctx).
BeginWait(o) ==
    /\ dpc[o] = "token"
    /\ dpc' = [dpc EXCEPT ![o] = "acquire"]
    /\ pc' = [pc EXCEPT ![o] = "lock"]
    /\ UNCHANGED <<cacheVars, scope, rate, maxTokens, tokens, sinceUpdate, mu,
                   timer, done, taken, timePassed, calls, kind, attempts,
                   status, sleeps, allRetryable, stimer, seen, result, callVars>>

\* A step of the rl.Wait call the operation is in.
Acquire(o) ==
    /\ dpc[o] = "acquire"
    /\ WaitStep(o)
    /\ UNCHANGED dispatchVars

\* rl.Wait returned ctx.Err(): DONE_ERROR(Cancelled).
WaitCancelled(o) ==
    /\ dpc[o] = "acquire"
    /\ pc[o] = "cancelled"
    /\ dpc' = [dpc EXCEPT ![o] = "done"]
    /\ result' = [result EXCEPT ![o] = Failure(Canceled)]
    /\ UNCHANGED <<cacheVars, scope, limiterVars, calls, kind, attempts,
                   status, sleeps, allRetryable, stimer, seen, callVars>>

\* ATTEMPT and CLASSIFY, after rl.Wait returned nil: the request is sent, the
\* answer's status is classified by errorFromCode; success goes on to
\* STORE_CACHE, a retryable failure with budget remaining to SLEEP(backoff),
\* any other failure to DONE_ERROR.
Attempt(o, st) ==
    /\ dpc[o] = "acquire"
    /\ pc[o] = "ok"
    /\ attempts' = [attempts EXCEPT ![o] = @ + 1]
    /\ status' = [status EXCEPT ![o] = st]
    /\ prevStatus' = [prevStatus EXCEPT ![o] = status[o]]
    /\ UNCHANGED <<precancelled, wrote, arg>>
    /\ allRetryable' = [allRetryable EXCEPT ![o] = @ /\ st \in {429, 503, 504}]
    /\ LET err == errorFromCode(st, Message)
       IN  IF err = nil
           THEN /\ dpc' = [dpc EXCEPT ![o] = "storeSearch"]
                /\ result' = [result EXCEPT ![o] = Success(Payload)]
                /\ UNCHANGED <<sleeps, stimer>>
           ELSE IF shouldRetry(err, st) /\ attempts[o] + 1 < rc.MaxRetries
                THEN /\ dpc' = [dpc EXCEPT ![o] = "sleep"]
                     /\ stimer' = [stimer EXCEPT ![o] =
                                      calculateBackoff(rc, attempts[o])]
                     /\ sleeps' = [sleeps EXCEPT ![o] =
                                      Append(@, calculateBackoff(rc, attempts[o]))]
                     /\ UNCHANGED result
                ELSE /\ dpc' = [dpc EXCEPT ![o] = "done"]
                     /\ result' = [result EXCEPT ![o] = Failure(err)]
                     /\ UNCHANGED <<sleeps, stimer>>
    /\ UNCHANGED <<cacheVars, scope, limiterVars, calls, kind, seen>>

\* sleep: case <-time.After(duration): return nil; the loop acquires again.
SleepTimer(o) ==
    /\ dpc[o] = "sleep"
    /\ stimer[o] = 0
    /\ dpc' = [dpc EXCEPT ![o] = "token"]
    /\ UNCHANGED <<cacheVars, scope, limiterVars, calls, kind, attempts,
                   status, sleeps, allRetryable, stimer, seen, result, callVars>>

\* sleep: case <-ctx.Done(): return ctx.Err(): DONE_ERROR(Cancelled).
SleepDone(o) ==
    /\ dpc[o] = "sleep"
    /\ done[o]
    /\ dpc' = [dpc EXCEPT ![o] = "done"]
    /\ result' = [result EXCEPT ![o] = Failure(Canceled)]
    /\ UNCHANGED <<cacheVars, scope, limiterVars, calls, kind, attempts,
                   status, sleeps, allRetryable, stimer, seen, callVars>>

\* c.cache.Set(cacheKey, cacheData, 5*time.Minute): KeywordSearch stores under
\* the search key, GetProductDetails then under the product key.
StoreCache(o) ==
    /\ dpc[o] \in {"storeSearch", "storeProduct"}
    /\ Set(IF dpc[o] = "storeSearch" THEN SearchKey ELSE ProductKey,
           result[o].value, CacheTTL)
    /\ wrote' = [wrote EXCEPT ![o] =
                    @ \cup {IF dpc[o] = "storeSearch" THEN SearchKey
                                                      ELSE ProductKey}]
    /\ dpc' = [dpc EXCEPT ![o] =
                  IF dpc[o] = "storeSearch" /\ kind[o] = "GetProductDetails"
                  THEN "storeProduct" ELSE "done"]
    /\ UNCHANGED <<calls, kind, attempts, status, sleeps, allRetryable, stimer,
                   seen, result, prevStatus, precancelled, arg>>

\* if err := c.parseResponse(body, &wrapper); err != nil { return nil, err }:
\* the body of the answer is not a JSON document.
ParseFail(o) ==
    /\ dpc[o] = "storeSearch"
    /\ dpc' = [dpc EXCEPT ![o] = "done"]
    /\ result' = [result EXCEPT ![o] = Failure(SyntaxError)]
    /\ UNCHANGED <<cacheVars, scope, limiterVars, calls, kind, attempts,
                   status, sleeps, allRetryable, stimer, seen, callVars>>

\* The operation's context is cancelled while the operation is in progress.
DispatchCancel(o) ==
    /\ dpc[o] \notin {"idle", "done"}
    /\ ~done[o]
    /\ done' = [done EXCEPT ![o] = TRUE]
    /\ UNCHANGED <<cacheVars, scope, rate, maxTokens, tokens, sinceUpdate, mu,
                   pc, timer, taken, timePassed, dispatchVars>>

\* The clock advances one tick, for the limiter, the cache and the sleeps.
DispatchTick ==
    /\ now < DispatchHorizon
    /\ now' = now + 1
    /\ sinceUpdate' = Min(sinceUpdate + 1, Second)
    /\ timer' = [w \in Waiters |-> Max(timer[w] - 1, 0)]
    /\ stimer' = [o \in Ops |-> Max(stimer[o] - 1, 0)]
    /\ timePassed' = TRUE
    /\ ret' = NoRet
    /\ UNCHANGED <<items, lastWrite, scope, rate, maxTokens, tokens, mu, pc,
                   done, taken, dpc, calls, kind, attempts, status, sleeps,
                   allRetryable, seen, result, callVars>>

\* With no operation in progress, more than the entries' ttl passes at once.
IdleTime ==
    /\ \A o \in Ops : dpc[o] \in {"idle", "done"}
    /\ now <= DispatchHorizon
    /\ now' = now + CacheTTL + 1
    /\ sinceUpdate' = Second
    /\ timer' = [w \in Waiters |-> 0]
    /\ timePassed' = TRUE
    /\ ret' = NoRet
    /\ UNCHANGED <<items, lastWrite, scope, rate, maxTokens, tokens, mu, pc,
                   done, taken, dispatchVars>>

\* The clock advances one tick for the limiter and the sleeps without end;
\* the reading the cache takes of it stops at DispatchHorizon.
LiveTick ==
    /\ now' = Min(now + 1, DispatchHorizon)
    /\ sinceUpdate' = Min(sinceUpdate + 1, Second)
    /\ timer' = [w \in Waiters |-> Max(timer[w] - 1, 0)]
    /\ stimer' = [o \in Ops |-> Max(stimer[o] - 1, 0)]
    /\ timePassed' = TRUE
    /\ ret' = NoRet
    /\ UNCHANGED <<items, lastWrite, scope, rate, maxTokens, tokens, mu, pc,
                   done, taken, dpc, calls, kind, attempts, status, sleeps,
                   allRetryable, seen, result, callVars>>

\* The next step of an operation in progress, whatever the attempt is
\* answered.
OpStep(o) ==
    \/ CheckCache(o)
    \/ BeginWait(o)
    \/ Acquire(o)
    \/ WaitCancelled(o)
    \/ \E st \in AttemptStatuses : Attempt(o, st)
    \/ SleepTimer(o)
    \/ SleepDone(o)
    \/ StoreCache(o)
    \/ ParseFail(o)

----------------------------------------------------------------------------
(* Claims about the client's operations *)

\* C18: an operation whose cache check found a live, decodable entry returns
\* that entry's payload as success, acquires no token and makes no attempt;
\* and a check made while the key's latest write is a store with a decodable
\* payload whose ttl has not passed is such a hit.
C18_CacheHitServes ==
    /\ [](\A o \in Ops :
            (seen[o].found /\ Decodes(seen[o].value)) =>
                /\ attempts[o] = 0
                /\ taken[o] = 0
                /\ dpc[o] \in {"storeProduct", "done"}
                /\ result[o] = Success(seen[o].value))
    /\ [][\A o \in Ops :
            LET key == IF dpc[o] = "checkProduct" THEN ProductKey ELSE SearchKey
            IN  (/\ CheckCache(o)
                 /\ IsSet(key) /\ Decodes(lastWrite[key].val)
                 /\ now <= lastWrite[key].at + lastWrite[key].ttl) =>
                    /\ result'[o] = Success(lastWrite[key].val)
                    /\ attempts'[o] = 0 /\ taken'[o] = 0
                    /\ dpc'[o] \in {"storeProduct", "done"}]_vars

\* After an operation that went to the network and stored its answer, a
\* second KeywordSearch was served from the cache.
C18_Witness ==
    \E o \in Ops :
        /\ kind[o] = "KeywordSearch" /\ dpc[o] = "done"
        /\ seen[o].found /\ result[o] = Success(Payload)
        /\ attempts[o] = 0 /\ taken[o] = 0
        /\ calls[o] = 2
        /\ lastWrite[SearchKey].op = "set" /\ lastWrite[SearchKey].val = Payload

\* C19: the tokens an operation has consumed equal the attempts it has
\* started, a token just acquired being the next attempt's.
C19_TokenPerAttempt ==
    \A o \in Ops :
        taken[o] = One * (attempts[o]
                            + IF dpc[o] = "acquire" /\ pc[o] = "ok" THEN 1 ELSE 0)

\* An operation ended after a first attempt and two retries.
C19_Witness ==
    \E o \in Ops :
        /\ dpc[o] = "done"
        /\ attempts[o] = 3
        /\ taken[o] = 3 * One

NonRetryable == AttemptStatuses \ {200, 429, 503, 504}

\* C21: an attempt answered by a non-retryable failure status ends the
\* operation at once, whatever budget remains: the operation is done with
\* that status's classified error, it began no sleep after the attempt, and
\* it acquired no token and started no attempt after it.
C21_NonRetryableEndsAtOnce ==
    \A o \in Ops :
        status[o] \in NonRetryable =>
            /\ dpc[o] = "done"
            /\ result[o] = Failure(errorFromCode(status[o], Message))
            /\ Len(sleeps[o]) = attempts[o] - 1
            /\ stimer[o] = 0
            /\ taken[o] = One * attempts[o]
            /\ prevStatus[o] \notin NonRetryable

\* With a budget of three attempts, the first one was answered 500 and the
\* operation ended with the generic error for it.
C21_Witness ==
    \E o \in Ops :
        /\ rc.MaxRetries = 3
        /\ attempts[o] = 1
        /\ status[o] = 500
        /\ dpc[o] = "done"
        /\ sleeps[o] = <<>>
        /\ taken[o] = One
        /\ result[o].err = Errorf(500, Message)

\* C22: an operation that ends because its budget is exhausted (its last
\* permitted attempt was answered by a retryable status) returns the error
\* classified from that last attempt's status: the rate-limited error for 429,
\* the generic error carrying the code and the message for 503 and 504,
\* whatever the earlier attempts were answered.
C22_LastClassifiedError ==
    \A o \in Ops :
        (attempts[o] = rc.MaxRetries /\ status[o] \in {429, 503, 504}) =>
            /\ dpc[o] = "done"
            /\ result[o].made /\ result[o].value = Nil
            /\ status[o] = 429 => result[o].err = ErrRateLimited
            /\ status[o] \in {503, 504} =>
                  result[o].err = [kind |-> "errorString",
                                   text |-> <<"API error (code ", status[o],
                                              "): ", Message>>]

\* Three attempts, the second answered 429 and the third 503: the operation
\* returned the generic error for 503.
C22_Witness ==
    \E o \in Ops :
        /\ rc.MaxRetries = 3 /\ attempts[o] = 3
        /\ prevStatus[o] = 429 /\ status[o] = 503
        /\ dpc[o] = "done"
        /\ result[o].err = Errorf(503, Message)
        /\ result[o].err # ErrRateLimited

\* C23: once rl.Wait or sleep has taken the ctx.Done() case of its select,
\* the operation's next step ends it with the Cancelled error: no attempt is
\* started, no token taken, no sleep begun and nothing stored after it, even
\* with budget remaining and an earlier attempt's error classified; and only
\* an operation whose context was cancelled returns Cancelled.
C23_CancellationWins ==
    /\ [](\A o \in Ops :
            result[o].err.kind = "context.Canceled" =>
                (dpc[o] = "done" /\ done[o] /\ result[o].value = Nil))
    /\ [][\A o \in Ops :
            LET observed == \/ dpc[o] = "acquire" /\ pc[o] = "cancelled"
                            \/ dpc[o] = "sleep" /\ dpc'[o] = "done"
                moved == <<dpc[o], result[o], attempts[o], taken[o]>>'
                            # <<dpc[o], result[o], attempts[o], taken[o]>>
            IN  (observed /\ moved) =>
                    /\ dpc'[o] = "done"
                    /\ result'[o] = [made |-> TRUE, value |-> Nil,
                                     err |-> [kind |-> "context.Canceled"]]
                    /\ attempts'[o] = attempts[o]
                    /\ taken'[o] = taken[o]
                    /\ sleeps'[o] = sleeps[o]
                    /\ items' = items]_vars

\* An operation with a budget of three attempts, whose first attempt was
\* answered 503, was cancelled in its backoff sleep and returned Cancelled.
C23_Witness ==
    \E o \in Ops :
        /\ rc.MaxRetries = 3 /\ attempts[o] = 1
        /\ status[o] = 503
        /\ Len(sleeps[o]) = 1
        /\ dpc[o] = "done"
        /\ result[o] = Failure(Canceled)

\* C24: an operation called with a context that is cancelled already makes
\* no attempt, and when its cache check misses it returns the Cancelled
\* error, whatever tokens the limiter holds.
C24_PrecancelledNoAttempt ==
    \A o \in Ops :
        precancelled[o] =>
            /\ attempts[o] = 0
            /\ (dpc[o] = "done" /\ ~CacheHit(seen[o])) =>
                    result[o] = Failure(Canceled)

C38_UndecodableIsMiss ==
    /\ [][\A o \in Ops :
            LET key == IF dpc[o] = "checkProduct" THEN ProductKey ELSE SearchKey
            IN  (CheckCache(o) /\ Get(key) = [value |-> "", found |-> TRUE]) =>
                    /\ result'[o] = NoResult
                    /\ attempts'[o] = 0
                    /\ dpc'[o] = IF dpc[o] = "checkProduct" THEN "checkSearch"
                                                            ELSE "token"]_vars
    /\ [](\A o \in Ops :
            (seen[o].found /\ seen[o].value = "") =>
                /\ (dpc[o] = "done" /\ result[o].err = nil) =>
                      /\ attempts[o] >= 1 /\ status[o] = 200
                      /\ result[o] = Success(Payload)
                      /\ \A k \in {SearchKey} \cup
                                   (IF kind[o] = "GetProductDetails"
                                    THEN {ProductKey} ELSE {}) :
                            /\ k \in wrote[o]
                            /\ items[k].data = Payload
                            /\ lastWrite[k].over = "live"
                /\ (dpc[o] = "done" /\ result[o].err # nil) =>
                      \/ result[o].err = Canceled
                      \/ attempts[o] >= 1)

\* GetProductDetails found undecodable entries under both keys, went to the
\* network, and replaced both with its result.
C38_Witness ==
    \E o \in Ops :
        /\ kind[o] = "GetProductDetails" /\ dpc[o] = "done"
        /\ seen[o] = [key |-> SearchKey, value |-> "", found |-> TRUE]
        /\ attempts[o] = 1
        /\ result[o] = Success(Payload)
        /\ wrote[o] = {SearchKey, ProductKey}
        /\ items[ProductKey].data = Payload /\ items[SearchKey].data = Payload
        /\ lastWrite[ProductKey].over = "live"

\* Whether a string is empty or made of white space only.
Blank(s) == \A i \in 1..Len(s) : s[i] \in WhiteSpace

\* C28: a KeywordSearch or GetProductDetails call whose argument is empty or
\* white space only has returned the "required" error when the call step is
\* over: it has read no cache entry, stored none, taken no token and made no
\* attempt, and the call step left the cache and the limiter as they were.
C28_BlankArgumentRejected ==
    /\ [](\A o \in Ops :
            (calls[o] >= 1 /\ Blank(arg[o])) =>
                /\ dpc[o] = "done"
                /\ result[o].made /\ result[o].value = Nil
                /\ result[o].err.kind = "errorString"
                /\ result[o].err.text =
                      <<IF kind[o] = "KeywordSearch" THEN "keyword is required"
                                                     ELSE "part code is required">>
                /\ seen[o] = NoSeen
                /\ wrote[o] = {}
                /\ taken[o] = 0
                /\ attempts[o] = 0)
    /\ [][\A o \in Ops :
            (calls'[o] # calls[o] /\ Blank(arg'[o])) =>
                /\ UNCHANGED <<items, lastWrite, ret, tokens, sinceUpdate, pc>>]_vars

\* A GetProductDetails call with a part code of white space only was
\* rejected.
C28_Witness ==
    \E o \in Ops :
        /\ kind[o] = "GetProductDetails"
        /\ arg[o] = <<" ", "\t", "\n">>
        /\ dpc[o] = "done"
        /\ result[o] = Failure(Required("GetProductDetails"))
        /\ seen[o] = NoSeen /\ taken[o] = 0 /\ attempts[o] = 0

\* C26: every operation that has begun its cache check eventually is done,
\* with success or with an error.
C26_EventuallyTerminal ==
    \A o \in Ops :
        (dpc[o] \in {"checkProduct", "checkSearch"}) ~> (dpc[o] = "done")

----------------------------------------------------------------------------
(* RateLimiter: callers that call Wait again and again *)

\* The goroutines that call Wait on the one limiter.
Callers == {1, 2}

\* The callers make up to MaxWaitCalls calls in all, each caller its own one
\* after the other.
MaxWaitCalls == 3

\* The clock of these behaviours runs tick by tick up to WaitHorizon.
WaitHorizon == MaxTime + 1

WaitCallsIdle ==
    /\ clock = 0
    /\ granted = 0
    /\ callNo = [w \in Waiters |-> 0]
    /\ polls = [w \in Waiters |-> 0]
    /\ began = [w \in Waiters |-> 0]

\* The calls the two callers have made.
CallsMade == callNo[1] + callNo[2]

\* The caller, whose last call has returned, calls rl.Wait(ctx) with a fresh
\* context.
CallWait(w) ==
    /\ pc[w] \in {"ok", "cancelled"}
    /\ CallsMade < MaxWaitCalls
    /\ callNo' = [callNo EXCEPT ![w] = @ + 1]
    /\ polls' = [polls EXCEPT ![w] = 0]
    /\ began' = [began EXCEPT ![w] = clock]
    /\ pc' = [pc EXCEPT ![w] = "lock"]
    /\ done' = [done EXCEPT ![w] = FALSE]
    /\ taken' = [taken EXCEPT ![w] = 0]
    /\ UNCHANGED <<cacheVars, scope, rate, maxTokens, tokens, sinceUpdate, mu,
                   timer, timePassed, clock, granted>>

\* A step of the caller's Wait call: a return of nil is counted, and so is
\* a poll sleep begun.
CallStep(w) ==
    /\ WaitStep(w)
    /\ granted' = granted + IF pc[w] = "take" /\ pc'[w] = "ok" THEN 1 ELSE 0
    /\ polls' = [polls EXCEPT ![w] =
                    @ + IF pc[w] = "take" /\ pc'[w] = "select" THEN 1 ELSE 0]
    /\ UNCHANGED <<clock, callNo, began>>

\* The context of the caller's call in progress is cancelled.
CallCancel(w) ==
    /\ Cancel(w)
    /\ UNCHANGED callVarsOfWait

\* The clock advances one tick.
CallTick ==
    /\ clock < WaitHorizon
    /\ LimiterTick
    /\ clock' = clock + 1
    /\ UNCHANGED <<granted, callNo, polls, began>>

----------------------------------------------------------------------------
(* Claims about repeated Wait calls *)

\* C29: at every time t the Wait calls that have returned nil since the
\* limiter was constructed at t0 number at most capacity + rate * (t - t0),
\* whatever the callers and the order of their steps.
C29_RateBound ==
    granted * One * Second <= maxTokens * Second + rate * clock

\* One tick (half a second) after construction with rate 2.0 and capacity
\* 2.0, three calls have returned nil, which is the bound exactly.
C29_Witness ==
    /\ rate = 2 * One
    /\ clock = 1
    /\ granted = 3
    /\ granted * One * Second = maxTokens * Second + rate * clock

\* C30: while caller 1 is the only one to have called Wait, on a limiter of
\* rate r >= 1: its first capacity calls return nil without a poll sleep; no
\* call of its begins a second poll sleep; and a call that returned nil after
\* its one poll sleep returned 1/r seconds or more after it was made.
C30_OnePollSleep ==
    (callNo[2] = 0 /\ rate >= One) =>
        /\ callNo[1] <= maxTokens \div One =>
              (polls[1] = 0 /\ pc[1] \notin {"select", "cancelled"})
        /\ polls[1] <= 1
        /\ (pc[1] = "ok" /\ polls[1] = 1) =>
              (clock - began[1]) * rate >= Second * One

\* With rate 2.0 the single caller's first two calls returned at once and its
\* third, made on the empty bucket at the same instant, returned after one
\* poll sleep of one tick, half a second.
C30_Witness ==
    /\ rate = 2 * One
    /\ callNo = [w \in Waiters |-> IF w = 1 THEN 3 ELSE 0]
    /\ granted = 3
    /\ pc[1] = "ok" /\ polls[1] = 1
    /\ began[1] = 0 /\ clock = 1

----------------------------------------------------------------------------
(* sleep: one call, from the moment time.After(duration) was evaluated *)

\* The longest duration and the latest deadline of a sleep call, in ticks.
MaxSleep == 3

SleepIdle ==
    /\ sleepPc = "idle"
    /\ duration = 0
    /\ after = 0
    /\ ctxDone = FALSE
    /\ ctxDeadline = -1
    /\ elapsed = 0
    /\ early = FALSE

SearchesIdle ==
    /\ spc = [w \in Waiters |-> "idle"]
    /\ tries = [w \in Waiters |-> 0]
    /\ nap = [w \in Waiters |-> 0]
    /\ got = [w \in Waiters |-> Nil]
    /\ missed = [w \in Waiters |-> FALSE]
    /\ order = <<>>

\* No body was handed to doRequest.
NoBody == [Keyword |-> <<>>]

\* The zero value of SearchResponse.
NoResponse == [Products |-> <<>>, query |-> NoBody]

\* KeywordSearch was not reached.
NoSearch ==
    [keyword |-> <<>>, key |-> <<>>, page |-> 0, size |-> 0, sent |-> NoBody,
     from |-> "none", resp |-> NoResponse, err |-> nil, writes |-> {}]

NoCallYet ==
    [method |-> "none", req |-> <<>>, search |-> NoSearch, hit |-> FALSE,
     err |-> nil, stored |-> {}]

RequestsIdle ==
    /\ rcalls = 0
    /\ last = NoCallYet

RestIdle == SleepIdle /\ WaitCallsIdle /\ SearchesIdle /\ RequestsIdle

\* The select finds the time.After channel ready: return nil. When the Done
\* channel is ready too, the select takes either case.
PollTimer ==
    /\ sleepPc = "poll"
    /\ after = 0
    /\ sleepPc' = "nil"
    /\ UNCHANGED <<duration, after, ctxDone, ctxDeadline, elapsed, early>>

\* The select finds the Done channel ready: return ctx.Err().
PollDone ==
    /\ sleepPc = "poll"
    /\ ctxDone
    /\ sleepPc' = "err"
    /\ UNCHANGED <<duration, after, ctxDone, ctxDeadline, elapsed, early>>

\* The select finds no channel ready: the goroutine is parked on both, and
\* the first channel to become ready decides the case.
Park ==
    /\ sleepPc = "poll"
    /\ after > 0 /\ ~ctxDone
    /\ sleepPc' = "parked"
    /\ UNCHANGED <<duration, after, ctxDone, ctxDeadline, elapsed, early>>

\* cancel() of the call's context: the Done channel is closed, which wakes a
\* parked select with the ctx.Done() case.
SleepCancel ==
    /\ sleepPc \in {"poll", "parked"}
    /\ ~ctxDone
    /\ ctxDone' = TRUE
    /\ early' = (early \/ elapsed < duration)
    /\ sleepPc' = IF sleepPc = "parked" THEN "err" ELSE sleepPc
    /\ UNCHANGED <<duration, after, ctxDeadline, elapsed>>

\* One tick passes: the timer and the deadline come nearer and fire at zero.
\* A parked select is woken by the one that fires, by either when both fire
\* at this instant.
SleepTick ==
    /\ sleepPc \in {"poll", "parked"}
    /\ elapsed <= MaxSleep
    /\ elapsed' = elapsed + 1
    /\ after' = Max(after - 1, 0)
    /\ ctxDeadline' = IF ctxDeadline > 0 THEN ctxDeadline - 1 ELSE ctxDeadline
    /\ LET expires == ctxDeadline = 1
           fires == after = 1
       IN  /\ ctxDone' = (ctxDone \/ expires)
           /\ early' = (early \/ (expires /\ ~ctxDone /\ elapsed + 1 < duration))
           /\ IF sleepPc = "parked"
              THEN \/ fires /\ sleepPc' = "nil"
                   \/ expires /\ sleepPc' = "err"
                   \/ ~fires /\ ~expires /\ sleepPc' = sleepPc
              ELSE sleepPc' = sleepPc
    /\ UNCHANGED duration

----------------------------------------------------------------------------
(* Claims about sleep *)

\* C27: a sleep call that returned nil returned after its full duration and
\* its context was not cancelled or timed out before the duration had
\* elapsed; with such a context the call returns the context's error.
C27_SleepObservesContext ==
    /\ sleepPc = "nil" => (elapsed >= duration /\ ~early)
    /\ (early /\ sleepPc \in {"nil", "err"}) => sleepPc = "err"

----------------------------------------------------------------------------
(* KeywordSearch called by concurrent goroutines for one request *)

\* The goroutines that call KeywordSearch on the one client, each once and
\* all with the same request; a goroutine calls rl.Wait as the waiter and
\* the cache as the thread of its own number.
Searchers == {1, 2}

\* The clock of these behaviours runs tick by tick up to SearchHorizon.
SearchHorizon == MaxTime

\* The bodies the catalog service answers a successful attempt with.
Replies == {"a", "b"}

\* The status codes it answers with.
SearchStatuses == {200, 503}

\* c.cache.Get(cacheKey) is called and its mc.mu.RLock() returns.
GetEnter(w) ==
    /\ spc[w] = "check"
    /\ CanAcquire(LockMode("Get"))
    /\ rwReaders' = rwReaders \cup {w}
    /\ spc' = [spc EXCEPT ![w] = "get"]
    /\ UNCHANGED <<scope, limiterVars, cacheVars, rwWriter, tries, nap, got,
                   missed, order>>

\* The body of Get and its deferred RUnlock(); KeywordSearch returns a
\* decodable hit and goes on to doRequest with anything else.
GetLeave(w) ==
    /\ spc[w] = "get"
    /\ GetCall(SearchKey)
    /\ rwReaders' = rwReaders \ {w}
    /\ IF CacheHit(Get(SearchKey))
       THEN /\ spc' = [spc EXCEPT ![w] = "hit"]
            /\ got' = [got EXCEPT ![w] = Get(SearchKey).value]
            /\ UNCHANGED missed
       ELSE /\ spc' = [spc EXCEPT ![w] = "token"]
            /\ missed' = [missed EXCEPT ![w] = TRUE]
            /\ UNCHANGED got
    /\ UNCHANGED <<rwWriter, tries, nap, order>>

\* doRequest calls rl.Wait(ctx), at first and after every backoff sleep.
SearchBeginWait(w) ==
    /\ spc[w] = "token"
    /\ spc' = [spc EXCEPT ![w] = "acquire"]
    /\ pc' = [pc EXCEPT ![w] = "lock"]
    /\ UNCHANGED <<cacheVars, scope, rate, maxTokens, tokens, sinceUpdate, mu,
                   timer, done, taken, timePassed, rwWriter, rwReaders,
                   tries, nap, got, missed, order>>

\* A step of the rl.Wait call.
SearchAcquire(w) ==
    /\ spc[w] = "acquire"
    /\ WaitStep(w)
    /\ UNCHANGED <<rwWriter, rwReaders, searchVars>>

\* rl.Wait returned ctx.Err().
SearchWaitCancelled(w) ==
    /\ spc[w] = "acquire"
    /\ pc[w] = "cancelled"
    /\ spc' = [spc EXCEPT ![w] = "cancelled"]
    /\ UNCHANGED <<cacheVars, scope, limiterVars, rwWriter, rwReaders,
                   tries, nap, got, missed, order>>

\* rl.Wait returned nil: the attempt is made and answered with the status st
\* and, when that is 200, the body b.
SearchAttempt(w, st, b) ==
    /\ spc[w] = "acquire"
    /\ pc[w] = "ok"
    /\ tries' = [tries EXCEPT ![w] = @ + 1]
    /\ LET err == errorFromCode(st, Message)
       IN  IF err = nil
           THEN /\ spc' = [spc EXCEPT ![w] = "store"]
                /\ got' = [got EXCEPT ![w] = b]
                /\ UNCHANGED nap
           ELSE IF shouldRetry(err, st) /\ tries[w] + 1 < rc.MaxRetries
                THEN /\ spc' = [spc EXCEPT ![w] = "sleep"]
                     /\ nap' = [nap EXCEPT ![w] = calculateBackoff(rc, tries[w])]
                     /\ UNCHANGED got
                ELSE /\ spc' = [spc EXCEPT ![w] = "failed"]
                     /\ UNCHANGED <<nap, got>>
    /\ UNCHANGED <<cacheVars, scope, limiterVars, rwWriter, rwReaders, missed,
                   order>>

\* sleep: case <-time.After(duration)
SearchSleepTimer(w) ==
    /\ spc[w] = "sleep"
    /\ nap[w] = 0
    /\ spc' = [spc EXCEPT ![w] = "token"]
    /\ UNCHANGED <<cacheVars, scope, limiterVars, rwWriter, rwReaders,
                   tries, nap, got, missed, order>>

\* sleep: case <-ctx.Done()
SearchSleepDone(w) ==
    /\ spc[w] = "sleep"
    /\ done[w]
    /\ spc' = [spc EXCEPT ![w] = "cancelled"]
    /\ UNCHANGED <<cacheVars, scope, limiterVars, rwWriter, rwReaders,
                   tries, nap, got, missed, order>>

\* c.cache.Set(cacheKey, cacheData, 5*time.Minute) is called and its
\* mc.mu.Lock() returns.
SetEnter(w) ==
    /\ spc[w] = "store"
    /\ CanAcquire(LockMode("Set"))
    /\ rwWriter' = w
    /\ spc' = [spc EXCEPT ![w] = "set"]
    /\ UNCHANGED <<scope, limiterVars, cacheVars, rwReaders, tries, nap, got,
                   missed, order>>

\* The body of Set and its deferred Unlock(); KeywordSearch returns resp.
SetLeave(w) ==
    /\ spc[w] = "set"
    /\ Set(SearchKey, got[w], CacheTTL)
    /\ rwWriter' = 0
    /\ order' = Append(order, w)
    /\ spc' = [spc EXCEPT ![w] = "ok"]
    /\ UNCHANGED <<rwReaders, tries, nap, got, missed>>

\* The context of the call is cancelled while the call is in progress.
SearchCancel(w) ==
    /\ spc[w] \notin {"idle", "hit", "ok", "failed", "cancelled"}
    /\ ~done[w]
    /\ done' = [done EXCEPT ![w] = TRUE]
    /\ UNCHANGED <<cacheVars, scope, rate, maxTokens, tokens, sinceUpdate, mu,
                   pc, timer, taken, timePassed, rwWriter, rwReaders,
                   searchVars>>

\* The clock advances one tick, for the limiter, the cache and the sleeps.
SearchTick ==
    /\ now < SearchHorizon
    /\ now' = now + 1
    /\ sinceUpdate' = Min(sinceUpdate + 1, Second)
    /\ timer' = [w \in Waiters |-> Max(timer[w] - 1, 0)]
    /\ nap' = [w \in Waiters |-> Max(nap[w] - 1, 0)]
    /\ timePassed' = TRUE
    /\ ret' = NoRet
    /\ UNCHANGED <<items, lastWrite, scope, rate, maxTokens, tokens, mu, pc,
                   done, taken, rwWriter, rwReaders, spc, tries, got, missed,
                   order>>

\* The call is suspended: in the poll sleep of rl.Wait, where it also waits
\* for its context, or in the backoff sleep.
Suspended(w) ==
    \/ spc[w] = "acquire" /\ pc[w] = "select"
    \/ spc[w] = "sleep"

----------------------------------------------------------------------------
(* Claims about concurrent callers *)

\* C31: a call that is suspended, in the limiter's poll sleep or in the
\* backoff sleep, holds neither the limiter's mutex nor the cache's lock in
\* either mode; whoever holds one of them is inside the critical section it
\* guards, which has no suspension point, and so releases it.
C31_NoLockAcrossSuspension ==
    /\ \A w \in Searchers :
          Suspended(w) => (mu # w /\ rwWriter # w /\ w \notin rwReaders)
    /\ mu # 0 => (spc[mu] = "acquire" /\ pc[mu] \in {"refill", "cap", "take"})
    /\ rwWriter # 0 => spc[rwWriter] = "set"
    /\ \A r \in rwReaders : spc[r] = "get"

\* While one call is in the poll sleep of rl.Wait, the other has taken the
\* limiter's mutex.
C31_Witness ==
    \E w, u \in Searchers :
        /\ w # u
        /\ spc[w] = "acquire" /\ pc[w] = "select" /\ timer[w] > 0
        /\ mu = u

\* The calls that have stored their response.
Stored == {order[i] : i \in DOMAIN order}

\* C39: the goroutines' calls for one key are not merged. Every call that
\* missed the cache has taken one token of its own for each attempt of its
\* own; a call stores only what its own attempt was answered with, and every
\* call that returned a response it fetched has stored it; the entry in the
\* cache is whole, the response of the call that stored last with the expiry
\* that call gave it.
C39_NoDeduplication ==
    /\ \A w \in Searchers :
          /\ taken[w] = One * (tries[w] +
                 IF spc[w] = "acquire" /\ pc[w] = "ok" THEN 1 ELSE 0)
          /\ spc[w] \in {"store", "set", "ok"} =>
                 (missed[w] /\ tries[w] >= 1 /\ got[w] \in Replies)
          /\ spc[w] = "ok" <=> w \in Stored
    /\ order # <<>> =>
          /\ SearchKey \in DOMAIN items
          /\ items[SearchKey] =
                 [data |-> got[order[Len(order)]],
                  expiresAt |-> Add(lastWrite[SearchKey].at, CacheTTL)]

\* Both calls missed the cache, each made its own attempt with its own token
\* and was answered differently, and both stored: the second after the first.
C39_Witness ==
    /\ \A w \in Searchers : missed[w] /\ spc[w] = "ok" /\ tries[w] >= 1
    /\ got[1] # got[2]
    /\ Len(order) = 2
    /\ items[SearchKey].data = got[order[2]]

----------------------------------------------------------------------------
(* KeywordSearch and GetProductDetails: requests, cache keys, bodies *)

\* The calls made on the client, one after the other.
MaxRequests == 2

\* c.currency of NewClient(WithCurrency("USD"))
Currency == "USD"

\* The filter fields of a SearchRequest left at their zero values.
NoFilters ==
    [PresaleType |-> "", ComponentType |-> "", Attributes |-> <<>>,
     Brands |-> <<>>, StockOnly |-> FALSE, PreferredOnly |-> FALSE,
     SortBy |-> "", SortBySecondary |-> ""]

\* The filters of the requests: none, or one field set.
Filters ==
    {NoFilters,
     [NoFilters EXCEPT !.PresaleType = "stock"],
     [NoFilters EXCEPT !.PresaleType = "buy"],
     [NoFilters EXCEPT !.ComponentType = "base"],
     [NoFilters EXCEPT !.Attributes = <<[Name |-> "Resistance", Value |-> "10k"]>>],
     [NoFilters EXCEPT !.Brands = <<"Samsung">>],
     [NoFilters EXCEPT !.StockOnly = TRUE],
     [NoFilters EXCEPT !.PreferredOnly = TRUE],
     [NoFilters EXCEPT !.SortBy = "price"],
     [NoFilters EXCEPT !.SortBySecondary = "stock"]}

\* The keywords and part codes: the empty string and two part codes, one
\* with white space around it.
Keywords == {<<>>, <<" ", "C25804", "\n">>, <<"C1002">>}

\* CurrentPage and PageSize as the caller gives them, in pairs: each is
\* negative, zero and in range, and the page size is also at the cap and
\* beyond it.
PageArguments == {<<-1, -1>>, <<0, 0>>, <<1, 1>>, <<2, 100>>, <<1, 101>>}

SearchRequest(keyword, page, pageSize, f) ==
    [Keyword |-> keyword, CurrentPage |-> page, PageSize |-> pageSize,
     PresaleType |-> f.PresaleType, ComponentType |-> f.ComponentType,
     Attributes |-> f.Attributes, Brands |-> f.Brands,
     StockOnly |-> f.StockOnly, PreferredOnly |-> f.PreferredOnly,
     SortBy |-> f.SortBy, SortBySecondary |-> f.SortBySecondary]

\* The requests KeywordSearch is called with: every keyword with every pair
\* of page and page size, and the padded part code with page 1, size 1 and
\* every filter.
Requests ==
    {SearchRequest(k, pz[1], pz[2], NoFilters) : k \in Keywords,
                                                pz \in PageArguments}
      \cup {SearchRequest(<<" ", "C25804", "\n">>, 1, 1, f) : f \in Filters}

\* Mutant: a page size above 100 is left as it is.
PageValuesNoCap(r) ==
    [r EXCEPT !.CurrentPage = IF @ <= 0 THEN 1 ELSE @,
              !.PageSize = IF @ <= 0 THEN 50 ELSE @]

\* if req.CurrentPage <= 0 { req.CurrentPage = 1 }; if req.PageSize <= 0
\* { req.PageSize = 50 }; if req.PageSize > 100 { req.PageSize = 100 }
PageValues(r) ==
    LET a == [r EXCEPT !.CurrentPage = IF @ <= 0 THEN 1 ELSE @]
        b == [a EXCEPT !.PageSize = IF @ <= 0 THEN 50 ELSE @]
    IN  [b EXCEPT !.PageSize = IF @ > 100 THEN 100 ELSE @]

\* fmt.Sprintf("search:%s:%s:%d:%d", c.currency, keyword, page, pageSize)
getCacheKeySearch(keyword, page, pageSize) ==
    <<"search:", Currency, ":">> \o keyword \o <<":", page, ":", pageSize>>

\* Mutant: the product key is the search key of the part code.
getCacheKeyProductAsSearch(sku) ==
    <<"search:", Currency, ":">> \o sku \o <<":", 1, ":", 1>>

\* fmt.Sprintf("product:%s:%s", c.currency, sku)
getCacheKeyProduct(sku) == <<"product:", Currency, ":">> \o sku

\* The searchRequestBody handed to doRequest.
searchRequestBody(keyword, r) ==
    [Keyword |-> keyword,
     CurrentPage |-> r.CurrentPage,
     PageSize |-> r.PageSize,
     PresaleType |-> IF r.PresaleType # "" THEN r.PresaleType ELSE "stock",
     SearchType |-> 2,
     ComponentLibraryType |-> IF r.ComponentType # "" THEN r.ComponentType
                                                      ELSE Nil,
     ComponentAttributeList |->
         [i \in DOMAIN r.Attributes |->
             [attributeName |-> r.Attributes[i].Name,
              attributeValue |-> r.Attributes[i].Value]],
     ComponentBrandList |-> r.Brands,
     FirstSortName |-> r.SortBy,
     SecondSortName |-> r.SortBySecondary,
     SearchSource |-> "search",
     StockFlag |-> r.StockOnly,
     PreferredComponentFlag |-> r.PreferredOnly]

\* What doRequest and parseResponse give for a body sent: an error after the
\* attempts, a body that does not parse, or a page of zero or one products.
Answers ==
    {[err |-> ErrRateLimited, parses |-> FALSE, count |-> 0],
     [err |-> nil, parses |-> FALSE, count |-> 0],
     [err |-> nil, parses |-> TRUE, count |-> 0],
     [err |-> nil, parses |-> TRUE, count |-> 1]}

\* The response of the catalog service to a body: the products found for it.
Response(body, count) ==
    [Products |-> [i \in 1..count |-> [ComponentCode |-> body.Keyword]],
     query |-> body]

\* json.Marshal of a SearchResponse or a Product, and json.Unmarshal of the
\* bytes into a value of the type wanted.
Marshal(type, v) == [json |-> type, of |-> v]
Unmarshals(bytes, type) == bytes.json = type
Unmarshal(bytes) == bytes.of

\* fmt.Errorf("product not found: %s", partCode)
NotFoundf(partCode) ==
    [kind |-> "errorString", text |-> <<"product not found: ">> \o partCode]

\* KeywordSearch(ctx, r), the request answered with ans when it is sent: what
\* the call looked up, sent, returned and has to store.
KeywordSearch(r, ans) ==
    LET keyword == TrimSpace(r.Keyword)
        n == PageValues(r)
        cacheKey == getCacheKeySearch(keyword, n.CurrentPage, n.PageSize)
        cached == Get(cacheKey)
        body == searchRequestBody(keyword, n)
        resp == Response(body, ans.count)
        looked == [NoSearch EXCEPT !.keyword = keyword, !.key = cacheKey,
                                   !.page = n.CurrentPage, !.size = n.PageSize]
    IN  IF keyword = <<>>
        THEN [NoSearch EXCEPT !.err = Required("KeywordSearch")]
        ELSE IF cached.found /\ Unmarshals(cached.value, "SearchResponse")
        THEN [looked EXCEPT !.from = "cache", !.resp = Unmarshal(cached.value)]
        ELSE IF ans.err # nil
        THEN [looked EXCEPT !.from = "network", !.sent = body, !.err = ans.err]
        ELSE IF ~ans.parses
        THEN [looked EXCEPT !.from = "network", !.sent = body,
                            !.err = SyntaxError]
        ELSE [looked EXCEPT !.from = "network", !.sent = body, !.resp = resp,
                 !.writes = {<<cacheKey, Marshal("SearchResponse", resp)>>}]

\* c.cache.Set(key, data, 5*time.Minute) for each pair of writes, in turn.
RECURSIVE SetAll(_, _)
SetAll(m, writes) ==
    IF writes = <<>> THEN m
    ELSE SetAll(Store(m, Head(writes)[1],
                      NewCacheItem(Head(writes)[2], CacheTTL)),
                Tail(writes))

\* The call KeywordSearch(ctx, r).
CallKeywordSearch(r, ans) ==
    /\ rcalls < MaxRequests
    /\ rcalls' = rcalls + 1
    /\ LET o == KeywordSearch(r, ans)
       IN  /\ items' = SetAll(items, IF o.writes = {} THEN <<>>
                                     ELSE <<CHOOSE x \in o.writes : TRUE>>)
           /\ last' = [method |-> "KeywordSearch", req |-> r, search |-> o,
                       hit |-> FALSE, err |-> o.err,
                       stored |-> {x[1] : x \in o.writes}]
    /\ UNCHANGED <<now, lastWrite, ret, scope, limiterVars>>

\* The call GetProductDetails(ctx, partCode).
CallGetProductDetails(code, ans) ==
    /\ rcalls < MaxRequests
    /\ rcalls' = rcalls + 1
    /\ LET partCode == TrimSpace(code)
           cacheKey == getCacheKeyProduct(partCode)
           cached == Get(cacheKey)
           r == SearchRequest(partCode, 1, 1, NoFilters)
           o == KeywordSearch(r, ans)
           called == [method |-> "GetProductDetails", req |-> r,
                      search |-> NoSearch, hit |-> FALSE, err |-> nil,
                      stored |-> {}]
       IN  IF partCode = <<>>
           THEN /\ last' = [called EXCEPT !.err = Required("GetProductDetails")]
                /\ UNCHANGED items
           ELSE IF cached.found /\ Unmarshals(cached.value, "Product")
           THEN /\ last' = [called EXCEPT !.hit = TRUE]
                /\ UNCHANGED items
           ELSE IF o.err # nil
           THEN /\ last' = [called EXCEPT !.search = o, !.err = o.err]
                /\ UNCHANGED items
           ELSE IF Len(o.resp.Products) = 0
           THEN /\ last' = [called EXCEPT !.search = o,
                                          !.err = NotFoundf(partCode),
                                          !.stored = {x[1] : x \in o.writes}]
                /\ items' = SetAll(items, IF o.writes = {} THEN <<>>
                                          ELSE <<CHOOSE x \in o.writes : TRUE>>)
           ELSE /\ last' = [called EXCEPT !.search = o,
                               !.stored = {x[1] : x \in o.writes}
                                             \cup {cacheKey}]
                /\ items' =
                     SetAll(items,
                            (IF o.writes = {} THEN <<>>
                             ELSE <<CHOOSE x \in o.writes : TRUE>>)
                            \o <<
                              <<cacheKey,
                                Marshal("Product", o.resp.Products[1])>> >>)
    /\ UNCHANGED <<now, lastWrite, ret, scope, limiterVars>>

\* More than the entries' ttl passes between two calls.
RequestsIdleTime ==
    /\ 0 < rcalls /\ rcalls < MaxRequests
    /\ now = 0
    /\ now' = now + CacheTTL + 1
    /\ UNCHANGED <<items, lastWrite, ret, scope, limiterVars, requestVars>>

----------------------------------------------------------------------------
(* Claims about the requests of KeywordSearch and GetProductDetails *)

\* C35: a KeywordSearch call with a non-blank keyword looks up the cache and
\* sends its request with a page of 1 or more and a page size from 1 to 100:
\* a page of 0 or less has become 1, a page size of 0 or less 50, a page size
\* above 100 has become 100, any other value is as given; and a call with a
\* page size above 100 fails only with an error of the request it has sent.
C35_PageValuesInRange ==
    (last.method = "KeywordSearch" /\ TrimSpace(last.req.Keyword) # <<>>) =>
        LET r == last.req
            o == last.search
        IN  /\ o.page >= 1
            /\ 1 <= o.size /\ o.size <= 100
            /\ o.page = IF r.CurrentPage <= 0 THEN 1 ELSE r.CurrentPage
            /\ o.size = IF r.PageSize <= 0 THEN 50
                        ELSE IF r.PageSize > 100 THEN 100 ELSE r.PageSize
            /\ o.key[Len(o.key) - 2] = o.page
            /\ o.key[Len(o.key)] = o.size
            /\ o.from = "network" =>
                  (o.sent.CurrentPage = o.page /\ o.sent.PageSize = o.size)
            /\ (r.PageSize > 100 /\ last.err # nil) =>
                  (o.from = "network" /\ last.err \in {ErrRateLimited, SyntaxError})

\* A search with page size 101 was sent with page size 100 and answered.
C35_Witness ==
    /\ last.method = "KeywordSearch"
    /\ TrimSpace(last.req.Keyword) # <<>>
    /\ last.req.PageSize = 101
    /\ last.search.from = "network"
    /\ last.search.sent.PageSize = 100
    /\ last.err = nil
    /\ last.stored = {getCacheKeySearch(TrimSpace(last.req.Keyword), 1, 100)}

\* The latest call is a GetProductDetails call, for a part code that is not
\* blank, that did not return from its cache check.
ProductMiss ==
    /\ last.method = "GetProductDetails"
    /\ last.req.Keyword # <<>>
    /\ ~last.hit

\* C36: a GetProductDetails call that missed the cache under the product key
\* has made a KeywordSearch for the part code with page 1 and page size 1; it
\* has stored an entry under the product key, the first product, exactly when
\* that search returned no error and at least one product; otherwise it has
\* returned an error and the product key is a miss as before, and no step of
\* such a call touches the entry of the product key.
C36_ProductStoredOnSuccess ==
    /\ [](ProductMiss =>
            LET o == last.search
                partCode == last.req.Keyword
                cacheKey == getCacheKeyProduct(partCode)
                found == o.err = nil /\ Len(o.resp.Products) >= 1
            IN  /\ o.from \in {"cache", "network"}
                /\ o.keyword = partCode /\ o.page = 1 /\ o.size = 1
                /\ o.from = "network" =>
                      /\ o.sent.Keyword = partCode
                      /\ o.sent.CurrentPage = 1 /\ o.sent.PageSize = 1
                /\ cacheKey \in last.stored <=> found
                /\ found =>
                      /\ last.err = nil
                      /\ cacheKey \in DOMAIN items
                      /\ items[cacheKey].data =
                            Marshal("Product", o.resp.Products[1])
                /\ ~found =>
                      /\ last.err # nil
                      /\ ~(Get(cacheKey).found
                             /\ Unmarshals(Get(cacheKey).value, "Product")))
    /\ [][(rcalls' = rcalls + 1 /\ ProductMiss'
             /\ getCacheKeyProduct(last'.req.Keyword) \notin last'.stored) =>
            LET cacheKey == getCacheKeyProduct(last'.req.Keyword)
            IN  /\ cacheKey \in DOMAIN items' <=> cacheKey \in DOMAIN items
                /\ cacheKey \in DOMAIN items => items'[cacheKey] = items[cacheKey]]_vars

\* The second call, GetProductDetails, missed under the product key, searched
\* and got a page of zero products, the one an earlier call had cached: it
\* returned the not-found error and nothing is stored under the product key.
C36_Witness ==
    /\ rcalls = 2
    /\ ProductMiss
    /\ last.search.from = "cache"
    /\ last.search.err = nil /\ Len(last.search.resp.Products) = 0
    /\ last.err = NotFoundf(last.req.Keyword)
    /\ getCacheKeyProduct(last.req.Keyword) \notin DOMAIN items

\* C37: a response KeywordSearch returns from the cache is the response to
\* a request body equal to the one the current request would send, in every
\* field: keyword, page, page size, presale type, component type, attributes,
\* brands, the stock and preferred flags and the two sort names.
C37_CachedForEqualRequest ==
    (last.search.from = "cache" /\ last.method = "KeywordSearch") =>
        last.search.resp.query =
            searchRequestBody(TrimSpace(last.req.Keyword), PageValues(last.req))

----------------------------------------------------------------------------
(* Specifications: a behaviour exercises one component and leaves the      *)
(* others as constructed.                                                  *)

LimiterIdle ==
    /\ rate = One /\ maxTokens = One /\ tokens = One /\ sinceUpdate = 0
    /\ mu = 0
    /\ pc = [w \in Waiters |-> "ok"]
    /\ timer = [w \in Waiters |-> 0]
    /\ done = [w \in Waiters |-> FALSE]
    /\ taken = [w \in Waiters |-> 0]
    /\ timePassed = FALSE

\* NewMemoryCache
CacheInit ==
    /\ scope = "cache"
    /\ CacheIdle
    /\ LimiterIdle
    /\ LockIdle
    /\ DispatchIdle
    /\ RestIdle
    /\ ErrorsIdle
    /\ RetryIdle

LimiterInit ==
    /\ scope = "limiter"
    /\ \E rps \in RpsInputs :
         LET rl == NewRateLimiter(rps)
         IN  /\ rate = rl.rate
             /\ maxTokens = rl.maxTokens
             /\ tokens = rl.tokens
             /\ sinceUpdate = rl.sinceUpdate
    /\ mu = 0
    /\ pc = [w \in Waiters |-> "lock"]
    /\ timer = [w \in Waiters |-> 0]
    /\ done \in [Waiters -> BOOLEAN]
    /\ taken = [w \in Waiters |-> 0]
    /\ timePassed = FALSE
    /\ CacheIdle
    /\ LockIdle
    /\ DispatchIdle
    /\ RestIdle
    /\ ErrorsIdle
    /\ RetryIdle

LimiterNext ==
    /\ scope = "limiter"
    /\ UNCHANGED <<lockVars, retryVars, errorVars, dispatchVars, restVars>>
    /\ \/ \E w \in Waiters : WaitStep(w)
       \/ \E w \in Waiters : Cancel(w)
       \/ LimiterTick

SpecLimiter == LimiterInit /\ [][LimiterNext]_vars

\* Fairness the scheduler gives: the clock keeps advancing and every goroutine
\* that can take a step eventually takes one.
FairSpecLimiter ==
    /\ SpecLimiter
    /\ WF_vars(LimiterTick /\ UNCHANGED <<lockVars, retryVars, errorVars,
                                           dispatchVars, restVars>>)
    /\ \A w \in Waiters :
          WF_vars(WaitStep(w) /\ UNCHANGED <<lockVars, retryVars, errorVars,
                                             dispatchVars, restVars>>)

CacheNext ==
    /\ scope = "cache"
    /\ UNCHANGED <<lockVars, retryVars, errorVars, dispatchVars, restVars>>
    /\ \/ \E k \in Keys : GetCall(k)
       \/ \E k \in Keys, v \in Values, ttl \in Ttls : Set(k, v, ttl)
       \/ \E k \in Keys : Delete(k)
       \/ Clear
       \/ CacheTick

SpecCache == CacheInit /\ [][CacheNext]_vars

\* The cache shared by goroutines.
CacheLockInit ==
    /\ scope = "cachelock"
    /\ CacheIdle
    /\ LimiterIdle
    /\ LockIdle
    /\ DispatchIdle
    /\ RestIdle
    /\ ErrorsIdle
    /\ RetryIdle

CacheLockNext ==
    /\ scope = "cachelock"
    /\ UNCHANGED <<retryVars, errorVars, dispatchVars, restVars>>
    /\ \/ \E t \in Threads, call \in CacheCalls : Enter(t, call)
       \/ \E t \in Threads : Leave(t)

SpecCacheLock == CacheLockInit /\ [][CacheLockNext]_vars

\* calculateBackoff of any RetryConfig.
RetryInit ==
    /\ scope = "retry"
    /\ rc \in RetryConfigs
    /\ attempt = -1
    /\ backoff = 0
    /\ prevBackoff = 0
    /\ CacheIdle
    /\ LimiterIdle
    /\ LockIdle
    /\ DispatchIdle
    /\ RestIdle
    /\ ErrorsIdle

RetryNext ==
    /\ scope = "retry"
    /\ UNCHANGED <<errorVars, dispatchVars, restVars>>
    /\ CallBackoff

SpecRetry == RetryInit /\ [][RetryNext]_vars

\* errorFromCode and shouldRetry called with any arguments.
ErrorsInit ==
    /\ scope = "errors"
    /\ ErrorsIdle
    /\ CacheIdle
    /\ LimiterIdle
    /\ LockIdle
    /\ DispatchIdle
    /\ RestIdle
    /\ RetryIdle

ErrorsNext ==
    /\ scope = "errors"
    /\ UNCHANGED <<dispatchVars, restVars>>
    /\ \/ \E err \in Errors, statusCode \in StatusCodes :
             CallShouldRetry(err, statusCode)
       \/ \E code \in StatusCodes, message \in Messages :
             CallErrorFromCode(code, message)
       \/ \E code \in StatusCodes, message \in Messages :
             CallBoth(code, message)

SpecErrors == ErrorsInit /\ [][ErrorsNext]_vars

\* The rates the client's limiter is built with: 1.0 and 2.0 per second.
ClientRates == {One, 2 * One}

\* What another user of the cache stored before the operations begin:
\* nothing, or an undecodable payload under every key.
Seeds == {[k \in Keys |-> Nil], [k \in Keys |-> ""]}

\* The client's configuration with three attempts and multiplier 2.0, as
\* DefaultRetryConfig has them.
ClientDefaultConfig ==
    CHOOSE c \in ClientRetryConfigs :
        /\ c.MaxRetries = DefaultRetryConfig.MaxRetries
        /\ c.BackoffMultiplier = DefaultRetryConfig.BackoffMultiplier

\* The clients whose operations are followed: every retry configuration with
\* rate 1.0 and an empty cache, and the default configuration also with rate
\* 2.0 and with a cache that holds undecodable entries.
ClientSetups ==
    {u \in [rps : ClientRates, rc : ClientRetryConfigs, seed : Seeds] :
        \/ u.rps = One /\ \A k \in Keys : u.seed[k] = Nil
        \/ u.rc = ClientDefaultConfig /\ \A k \in Keys : u.seed[k] = Nil
        \/ u.rc = ClientDefaultConfig /\ u.rps = One}

\* NewClient(WithCache(cache), WithRateLimit(rps), WithRetryConfig(rc)): a
\* limiter with a full bucket, a cache (c.cache != nil), a retry configuration.
DispatchInit ==
    /\ scope = "dispatch"
    /\ \E u \in ClientSetups :
         LET rl == NewRateLimiter(u.rps)
         IN  /\ rate = rl.rate
             /\ maxTokens = rl.maxTokens
             /\ tokens = rl.tokens
             /\ sinceUpdate = rl.sinceUpdate
             /\ rc = u.rc
             /\ items = [k \in {j \in Keys : u.seed[j] # Nil} |->
                            [data |-> u.seed[k], expiresAt |-> CacheTTL]]
             /\ lastWrite = [k \in Keys |->
                                IF u.seed[k] = Nil THEN NoWrite
                                ELSE [op |-> "set", at |-> 0, ttl |-> CacheTTL,
                                      val |-> u.seed[k], over |-> "absent"]]
    /\ mu = 0
    /\ pc = [w \in Waiters |-> "ok"]
    /\ timer = [w \in Waiters |-> 0]
    /\ done = [w \in Waiters |-> FALSE]
    /\ taken = [w \in Waiters |-> 0]
    /\ timePassed = FALSE
    /\ now = 0
    /\ ret = NoRet
    /\ attempt = -1
    /\ backoff = 0
    /\ prevBackoff = 0
    /\ LockIdle
    /\ ErrorsIdle
    /\ DispatchIdle
    /\ RestIdle

DispatchNext ==
    /\ scope = "dispatch"
    /\ UNCHANGED <<lockVars, retryVars, errorVars, restVars>>
    /\ \/ \E o \in Ops, k \in {"KeywordSearch", "GetProductDetails"},
             c \in BOOLEAN, a \in Arguments : Start(o, k, c, a)
       \/ \E o \in Ops : CheckCache(o)
       \/ \E o \in Ops : BeginWait(o)
       \/ \E o \in Ops : Acquire(o)
       \/ \E o \in Ops : WaitCancelled(o)
       \/ \E o \in Ops, st \in AttemptStatuses : Attempt(o, st)
       \/ \E o \in Ops : SleepTimer(o)
       \/ \E o \in Ops : SleepDone(o)
       \/ \E o \in Ops : StoreCache(o)
       \/ \E o \in Ops : ParseFail(o)
       \/ \E o \in Ops : DispatchCancel(o)
       \/ DispatchTick
       \/ IdleTime

SpecDispatch == DispatchInit /\ [][DispatchNext]_vars

\* The rates of the clients whose operations are followed to their end:
\* WithRateLimit(0.5) and WithRateLimit(1.0).
LiveRates == {One \div 2, One}

\* NewClient(WithCache(cache), WithRateLimit(rps)) with the default budget of
\* three attempts and an empty cache.
LiveInit ==
    /\ scope = "live"
    /\ \E rps \in LiveRates :
         LET rl == NewRateLimiter(rps)
         IN  /\ rate = rl.rate
             /\ maxTokens = rl.maxTokens
             /\ tokens = rl.tokens
             /\ sinceUpdate = rl.sinceUpdate
    /\ mu = 0
    /\ pc = [w \in Waiters |-> "ok"]
    /\ timer = [w \in Waiters |-> 0]
    /\ done = [w \in Waiters |-> FALSE]
    /\ taken = [w \in Waiters |-> 0]
    /\ timePassed = FALSE
    /\ CacheIdle
    /\ rc \in {c \in ClientRetryConfigs : c.MaxRetries = DefaultRetryConfig.MaxRetries}
    /\ attempt = -1
    /\ backoff = 0
    /\ prevBackoff = 0
    /\ LockIdle
    /\ ErrorsIdle
    /\ DispatchIdle
    /\ RestIdle

LiveNext ==
    /\ scope = "live"
    /\ UNCHANGED <<lockVars, retryVars, errorVars, restVars>>
    /\ \/ \E o \in Ops, k \in {"KeywordSearch", "GetProductDetails"},
             c \in BOOLEAN, a \in Arguments : Start(o, k, c, a)
       \/ \E o \in Ops : OpStep(o)
       \/ \E o \in Ops : DispatchCancel(o)
       \/ LiveTick

\* Time advances, every operation in progress is scheduled, and every attempt
\* returns; nothing obliges a caller to call or to cancel.
FairSpecDispatch ==
    /\ LiveInit
    /\ [][LiveNext]_vars
    /\ WF_vars(LiveTick /\ UNCHANGED <<lockVars, retryVars, errorVars, restVars>>)
    /\ \A o \in Ops :
          WF_vars(OpStep(o) /\ UNCHANGED <<lockVars, retryVars, errorVars, restVars>>)

\* sleep(ctx, d) has evaluated time.After(d); ctx is cancelled already, has
\* a deadline ahead, or neither.
SleepInit ==
    /\ scope = "sleep"
    /\ sleepPc = "poll"
    /\ duration \in 0..MaxSleep
    /\ after = duration
    /\ ctxDone \in BOOLEAN
    /\ ctxDeadline \in IF ctxDone THEN {-1} ELSE {-1} \cup 1..MaxSleep
    /\ elapsed = 0
    /\ early = ctxDone
    /\ WaitCallsIdle
    /\ SearchesIdle
    /\ RequestsIdle
    /\ LimiterIdle
    /\ CacheIdle
    /\ LockIdle
    /\ RetryIdle
    /\ ErrorsIdle
    /\ DispatchIdle

SleepNext ==
    /\ scope = "sleep"
    /\ UNCHANGED <<scope, limiterVars, cacheVars, lockVars, retryVars,
                   errorVars, dispatchVars, callVarsOfWait, searchVars,
                   requestVars>>
    /\ \/ PollTimer
       \/ PollDone
       \/ Park
       \/ SleepCancel
       \/ SleepTick

SpecSleep == SleepInit /\ [][SleepNext]_vars

\* NewRateLimiter(rps): no Wait call has been made.
WaitCallsInit ==
    /\ scope = "calls"
    /\ \E rps \in RpsInputs :
         LET rl == NewRateLimiter(rps)
         IN  /\ rate = rl.rate
             /\ maxTokens = rl.maxTokens
             /\ tokens = rl.tokens
             /\ sinceUpdate = rl.sinceUpdate
    /\ mu = 0
    /\ pc = [w \in Waiters |-> "ok"]
    /\ timer = [w \in Waiters |-> 0]
    /\ done = [w \in Waiters |-> FALSE]
    /\ taken = [w \in Waiters |-> 0]
    /\ timePassed = FALSE
    /\ WaitCallsIdle
    /\ SleepIdle
    /\ SearchesIdle
    /\ RequestsIdle
    /\ CacheIdle
    /\ LockIdle
    /\ RetryIdle
    /\ ErrorsIdle
    /\ DispatchIdle

WaitCallsNext ==
    /\ scope = "calls"
    /\ UNCHANGED <<lockVars, retryVars, errorVars, dispatchVars, sleepVars,
                   searchVars, requestVars>>
    /\ \/ \E w \in Callers : CallWait(w)
       \/ \E w \in Callers : CallStep(w)
       \/ \E w \in Callers : CallCancel(w)
       \/ CallTick

SpecWaitCalls == WaitCallsInit /\ [][WaitCallsNext]_vars

\* The retry configuration of the client the goroutines share: two attempts.
SearchRetryConfig ==
    CHOOSE c \in ClientRetryConfigs : c.MaxRetries = 2

\* NewClient(WithCache(cache), WithRateLimit(rps), WithRetryConfig(rc)); every
\* goroutine has called KeywordSearch with its own context.
SearchesInit ==
    /\ scope = "searches"
    /\ \E rps \in ClientRates :
         LET rl == NewRateLimiter(rps)
         IN  /\ rate = rl.rate
             /\ maxTokens = rl.maxTokens
             /\ tokens = rl.tokens
             /\ sinceUpdate = rl.sinceUpdate
    /\ mu = 0
    /\ pc = [w \in Waiters |-> "ok"]
    /\ timer = [w \in Waiters |-> 0]
    /\ done = [w \in Waiters |-> FALSE]
    /\ taken = [w \in Waiters |-> 0]
    /\ timePassed = FALSE
    /\ rc = SearchRetryConfig
    /\ attempt = -1
    /\ backoff = 0
    /\ prevBackoff = 0
    /\ spc = [w \in Waiters |-> IF w \in Searchers THEN "check" ELSE "idle"]
    /\ tries = [w \in Waiters |-> 0]
    /\ nap = [w \in Waiters |-> 0]
    /\ got = [w \in Waiters |-> Nil]
    /\ missed = [w \in Waiters |-> FALSE]
    /\ order = <<>>
    /\ SleepIdle
    /\ WaitCallsIdle
    /\ RequestsIdle
    /\ CacheIdle
    /\ LockIdle
    /\ ErrorsIdle
    /\ DispatchIdle

SearchesNext ==
    /\ scope = "searches"
    /\ UNCHANGED <<cpc, cop, retryVars, errorVars, dispatchVars, sleepVars,
                   callVarsOfWait, requestVars>>
    /\ \/ \E w \in Searchers : GetEnter(w)
       \/ \E w \in Searchers : GetLeave(w)
       \/ \E w \in Searchers : SearchBeginWait(w)
       \/ \E w \in Searchers : SearchAcquire(w)
       \/ \E w \in Searchers : SearchWaitCancelled(w)
       \/ \E w \in Searchers, st \in SearchStatuses, b \in Replies :
             SearchAttempt(w, st, b)
       \/ \E w \in Searchers : SearchSleepTimer(w)
       \/ \E w \in Searchers : SearchSleepDone(w)
       \/ \E w \in Searchers : SetEnter(w)
       \/ \E w \in Searchers : SetLeave(w)
       \/ \E w \in Searchers : SearchCancel(w)
       \/ SearchTick

SpecSearches == SearchesInit /\ [][SearchesNext]_vars

\* NewClient(WithCache(NewMemoryCache())): no call has been made.
RequestsInit ==
    /\ scope = "requests"
    /\ RequestsIdle
    /\ SleepIdle
    /\ WaitCallsIdle
    /\ SearchesIdle
    /\ CacheIdle
    /\ LimiterIdle
    /\ LockIdle
    /\ RetryIdle
    /\ ErrorsIdle
    /\ DispatchIdle

RequestsNext ==
    /\ scope = "requests"
    /\ UNCHANGED <<lockVars, retryVars, errorVars, dispatchVars, sleepVars,
                   callVarsOfWait, searchVars>>
    /\ \/ \E r \in Requests, ans \in Answers : CallKeywordSearch(r, ans)
       \/ \E code \in Keywords, ans \in Answers :
             CallGetProductDetails(code, ans)
       \/ RequestsIdleTime

SpecRequests == RequestsInit /\ [][RequestsNext]_vars

Init ==
    \/ LimiterInit \/ CacheInit \/ CacheLockInit \/ RetryInit \/ ErrorsInit
    \/ DispatchInit \/ LiveInit \/ SleepInit \/ WaitCallsInit
    \/ SearchesInit \/ RequestsInit

Next ==
    \/ LimiterNext \/ CacheNext \/ CacheLockNext \/ RetryNext \/ ErrorsNext
    \/ DispatchNext \/ LiveNext \/ SleepNext \/ WaitCallsNext
    \/ SearchesNext \/ RequestsNext

Spec == Init /\ [][Next]_vars

====
